---------------------------- MODULE Spec2Model ----------------------------
(***************************************************************************)
(* Verification model of the recalibra backend core:                       *)
(*   - the reconciler  get_training_frame   (app/services/drift.py)        *)
(*   - the drift detector  detect_drift / compute_psi  (same file)         *)
(*   - the correction trainer / applier  (app/services/correction.py)      *)
(*   - train_correction_endpoint, retrain_model_endpoint and the manual    *)
(*     drift-check endpoints  (app/api/routes_models.py, routes_drift.py)  *)
(*   - the periodic driver  BackgroundTaskManager  (background_tasks.py)   *)
(*   - the metric engine  calculate_metrics and                            *)
(*     calculate_metrics_by_time_buckets  (app/services/metrics.py)        *)
(*   - InMemoryStore.link_records / latest                                 *)
(*     (src/recalibra/storage/repository.py)                               *)
(*                                                                         *)
(* Every component has its own specification over its own variables; the   *)
(* variables of the other components are pinned to their idle values.      *)
(*                                                                         *)
(* Encoding of Python values:                                              *)
(*   None (string column)   -> the string None == "<None>"                 *)
(*   None (datetime column) -> NoneTs == -2 ;  pandas NaT -> NaT == -1     *)
(*   timestamps             -> day numbers >= 0                            *)
(*   floats                 -> integers (y values), thousandths (p, psi)   *)
(***************************************************************************)
EXTENDS Integers, Sequences, FiniteSets, TLC

VARIABLES
    predictions,   \* rows of table model_predictions, in the order the store returns them
    results,       \* rows of table assay_results, in the order the store returns them
    frame,         \* last return value of get_training_frame (NotCalled before a call)
    frame_model,   \* the model_id argument of that call
    df,            \* the frame handed to detect_drift
    cutoff_days,   \* the cutoff_days argument of detect_drift
    drift,         \* position in detect_drift, its two local windows, the returned dict
    df_twin,       \* a second frame handed to detect_drift, after the call on df
    drift_twin,    \* as drift, for the call on df_twin
    files,         \* content of settings.CORRECTION_DIR : path -> artifact
    trained,       \* history: model ids whose train_correction_layer call succeeded
    latest_fit,    \* history: model id -> pipeline fitted by its latest successful training
    corr,          \* outcome of the last train / apply call
    correction_models,  \* rows of table correction_models, in insertion order
    response,      \* HTTP outcome of the last endpoint request
    running,       \* BackgroundTaskManager.running
    task,          \* BackgroundTaskManager.task : the asyncio task last created (NoTask: None)
    tasks,         \* every asyncio task created by start(), with its position in the loop
    cpu,           \* the task the event loop is executing (NoTask: none, all are suspended)
    now,           \* datetime.utcnow(), in clock ticks
    drift_checks,  \* committed rows of table drift_checks, in commit order
    notified,      \* drift-check messages broadcast to the observers
    stop_called,   \* history: stop() was called and start() has not been called since
    m_predictions, \* the predictions argument of calculate_metrics
    m_actuals,     \* the actuals argument of calculate_metrics
    metrics,       \* outcome of the call of calculate_metrics
    psi_expected,  \* the expected argument of compute_psi
    psi_actual,    \* the actual argument of compute_psi
    psi_out,       \* outcome of the call of compute_psi
    records,       \* rows of table records of the datasets of one model, in insertion order
    bucket_size,   \* the bucket_size argument of calculate_metrics_by_time_buckets
    buckets,       \* outcome of the call of calculate_metrics_by_time_buckets
    round_df,      \* the rows trained on and then corrected in a round trip
    links,         \* InMemoryStore.links, the stored LinkedRecordSchema objects
    linked,        \* history, the LinkedRecord objects given to link_records so far
    latest_out     \* what the last call of InMemoryStore.latest was given and returned

storeVars == <<predictions, results, frame, frame_model>>
driftVars == <<df, cutoff_days, drift>>
twinVars  == <<df_twin, drift_twin>>
corrVars  == <<files, trained, latest_fit, corr>>
endpointVars == <<correction_models, response>>
driverVars == <<running, task, tasks, cpu, now, drift_checks, notified, stop_called>>
metricVars == <<m_predictions, m_actuals, metrics>>
psiVars == <<psi_expected, psi_actual, psi_out>>
bucketVars == <<records, bucket_size, buckets>>
roundVars == <<round_df>>
linkVars == <<links, linked, latest_out>>
vars      == <<predictions, results, frame, frame_model, df, cutoff_days, drift,
               df_twin, drift_twin,
               files, trained, latest_fit, corr, correction_models, response,
               running, task, tasks, cpu, now, drift_checks, notified, stop_called,
               m_predictions, m_actuals, metrics,
               psi_expected, psi_actual, psi_out,
               records, bucket_size, buckets,
               round_df,
               links, linked, latest_out>>

\* what a step of one component leaves alone
exceptStore == <<driftVars, twinVars, corrVars, endpointVars, driverVars, metricVars, psiVars, bucketVars, roundVars, linkVars>>
exceptDrift == <<storeVars, twinVars, corrVars, endpointVars, driverVars, metricVars, psiVars, bucketVars, roundVars, linkVars>>
exceptCorr  == <<storeVars, driftVars, twinVars, driverVars, metricVars, psiVars, bucketVars, roundVars, linkVars>>
exceptDriver == <<storeVars, driftVars, twinVars, corrVars, endpointVars, metricVars, psiVars, bucketVars, roundVars, linkVars>>
exceptLinks == <<storeVars, driftVars, twinVars, corrVars, endpointVars, driverVars, metricVars, psiVars, bucketVars, roundVars>>
exceptMetrics == <<storeVars, driftVars, twinVars, corrVars, endpointVars, driverVars, psiVars, bucketVars, roundVars, linkVars>>

-----------------------------------------------------------------------------
(* Bounds of the model *)

MaxPreds == 2
MaxResults == 2
MaxCtxPreds == 1
MaxCtxResults == 1

-----------------------------------------------------------------------------
(* Python values *)

None == "<None>"
NoneTs == 0 - 2
NaT == 0 - 1
NotCalled == [kind |-> "not called"]

\* the two shapes of Optional[pd.DataFrame]
NoFrame == [kind |-> "None"]
DataFrame(rows) == [kind |-> "DataFrame", rows |-> rows]

\* Python `a or b` on Optional[str]: None and "" are falsy
OrStr(a, b) == IF a \in {None, ""} THEN b ELSE a

\* Python `a or b` on Optional[datetime]: only None is falsy
OrTs(a, b) == IF a = NoneTs THEN b ELSE a

\* indices of a sequence, and the image of a sequence
Range(s) == {s[i] : i \in 1..Len(s)}

-----------------------------------------------------------------------------
(* Record store: the two tables read by the reconciler *)

Molecules == {"mol_a", "mol_b"}
Models == {"M1", "M2"}
Versions == {None, "", "v3"}

\* y_pred / y_true of the k-th stored record: pairwise distinct floats, so that a
\* frame row identifies the prediction and the outcome it was built from
PredValue(k) == 10 + k
TrueValue(k) == 20 + k

\* context (reagent_batch, instrument_id, run_timestamp) of a record
PredContexts == [reagent_batch : {None, "RB_P"},
                 instrument_id : {None, "LCMS_P"},
                 run_timestamp : {NoneTs, 3}]
ResultContexts == [reagent_batch : {None, "", "RB_R"},
                   instrument_id : {None, "LCMS_R"},
                   run_timestamp : {NoneTs, 5}]
PredContextFixed == [reagent_batch |-> "RB_P", instrument_id |-> None, run_timestamp |-> 3]
ResultContextFixed == [reagent_batch |-> None, instrument_id |-> "LCMS_R", run_timestamp |-> NoneTs]

\* ModelPrediction(...) row as inserted by the ingestion collaborator
NewPrediction(k, mol, model, ver, ctx) ==
    [id |-> k, molecule_id |-> mol, model_id |-> model, y_pred |-> PredValue(k),
     assay_version |-> ver, reagent_batch |-> ctx.reagent_batch,
     instrument_id |-> ctx.instrument_id, run_timestamp |-> ctx.run_timestamp]

\* AssayResult(...) row as inserted by the ingestion collaborator
NewResult(k, mol, ver, ctx) ==
    [id |-> k, molecule_id |-> mol, y_true |-> TrueValue(k),
     assay_version |-> ver, reagent_batch |-> ctx.reagent_batch,
     instrument_id |-> ctx.instrument_id, run_timestamp |-> ctx.run_timestamp]

-----------------------------------------------------------------------------
(* get_training_frame *)

\* db.query(ModelPrediction).filter(ModelPrediction.model_id == model_id).all()
QueryPredictions_NoFilter(preds, model_id) == preds
QueryPredictions(preds, model_id) ==
    SelectSeq(preds, LAMBDA p : p.model_id = model_id)

\* db.query(AssayResult).filter(AssayResult.molecule_id.in_(molecule_ids)).all()
QueryResults(res, preds) ==
    SelectSeq(res, LAMBDA r : r.molecule_id \in {p.molecule_id : p \in Range(preds)})

\* `x.assay_version or ""` : the assay tag used in the dictionary keys
VersionKey_Raw(ver) == ver
VersionKey(ver) == OrStr(ver, "")

\* the key (molecule_id, assay_version or "") of a record
ExactKey(rec) == <<rec.molecule_id, VersionKey(rec.assay_version)>>

\* keys of a dict comprehension {key(x): x for x in recs}, in insertion order
\* (the order of the first occurrence of each key)
RECURSIVE DictKeys(_)
DictKeys(keys) ==
    IF keys = <<>> THEN <<>>
    ELSE LET front == DictKeys(SubSeq(keys, 1, Len(keys) - 1))
             last  == keys[Len(keys)]
         IN  IF last \in Range(front) THEN front ELSE Append(front, last)

\* value of that dict at key k: a later record overwrites an earlier one
DictGet(recs, keys, k) ==
    recs[CHOOSE i \in 1..Len(recs) :
            /\ keys[i] = k
            /\ \A j \in (i + 1)..Len(recs) : keys[j] # k]

ExactKeys(recs) == [i \in 1..Len(recs) |-> ExactKey(recs[i])]
MolKeys(recs) == [i \in 1..Len(recs) |-> recs[i].molecule_id]

\* the row appended by the exact join (lines 83-91); `rule` is not a column of the
\* frame: it records which of the two loops appended the row
ExactRow(mol_id, assay_ver, pred, result) ==
    [rule |-> "exact",
     molecule_id |-> mol_id,
     y_pred |-> pred.y_pred,
     y_true |-> result.y_true,
     reagent_batch |-> OrStr(result.reagent_batch, pred.reagent_batch),
     instrument_id |-> OrStr(result.instrument_id, pred.instrument_id),
     assay_version |-> OrStr(assay_ver, "v1"),
     run_timestamp |-> OrTs(result.run_timestamp, pred.run_timestamp)]

\* the row appended by the molecule_id-only fallback (lines 101-109)
FallbackRow_PredFirst(mol_id, pred, result) ==
    [rule |-> "fallback",
     molecule_id |-> mol_id,
     y_pred |-> pred.y_pred,
     y_true |-> result.y_true,
     reagent_batch |-> OrStr(pred.reagent_batch, result.reagent_batch),
     instrument_id |-> OrStr(pred.instrument_id, result.instrument_id),
     assay_version |-> OrStr(OrStr(pred.assay_version, result.assay_version), "v1"),
     run_timestamp |-> OrTs(pred.run_timestamp, result.run_timestamp)]
FallbackRow(mol_id, pred, result) ==
    [rule |-> "fallback",
     molecule_id |-> mol_id,
     y_pred |-> pred.y_pred,
     y_true |-> result.y_true,
     reagent_batch |-> OrStr(result.reagent_batch, pred.reagent_batch),
     instrument_id |-> OrStr(result.instrument_id, pred.instrument_id),
     assay_version |-> OrStr(OrStr(result.assay_version, pred.assay_version), "v1"),
     run_timestamp |-> OrTs(result.run_timestamp, pred.run_timestamp)]

\* result_dict[key] of the exact join (line 82)
ExactLookup_ByMol(res, key) == DictGet(res, MolKeys(res), key[1])
ExactLookup(res, key) == DictGet(res, ExactKeys(res), key)

\* first loop (lines 79-92): one row per key of pred_dict that is in result_dict
RECURSIVE ExactJoin(_, _, _)
ExactJoin(pkeys, preds, res) ==
    IF pkeys = <<>> THEN <<>>
    ELSE LET key  == pkeys[Len(pkeys)]
             rest == ExactJoin(SubSeq(pkeys, 1, Len(pkeys) - 1), preds, res)
         IN  IF key \in Range(ExactKeys(res))
             THEN Append(rest, ExactRow(key[1], key[2],
                                        DictGet(preds, ExactKeys(preds), key),
                                        ExactLookup(res, key)))
             ELSE rest

\* already_matched = any(r["molecule_id"] == mol_id for r in rows)  (line 98)
AlreadyMatched(rows, mol_id) == \E i \in 1..Len(rows) : rows[i].molecule_id = mol_id

\* second loop (lines 95-109): rows appended after those of the first loop
FallbackJoin_Skipped(mols, preds, res, rows) == rows
RECURSIVE FallbackJoin(_, _, _, _)
FallbackJoin(mols, preds, res, rows) ==
    IF mols = <<>> THEN rows
    ELSE LET mol_id == mols[Len(mols)]
             sofar  == FallbackJoin(SubSeq(mols, 1, Len(mols) - 1), preds, res, rows)
         IN  IF mol_id \in Range(MolKeys(res)) /\ ~AlreadyMatched(sofar, mol_id)
             THEN Append(sofar, FallbackRow(mol_id,
                                            DictGet(preds, MolKeys(preds), mol_id),
                                            DictGet(res, MolKeys(res), mol_id)))
             ELSE sofar

\* pd.to_datetime(..., errors='coerce') on the run_timestamp column (lines 117-118)
ToDatetime(ts) == IF ts = NoneTs THEN NaT ELSE ts

\* lines 111-120: None for an empty join, else the DataFrame of the rows
FrameOrNone(rows) ==
    IF rows = <<>> THEN NoFrame
    ELSE DataFrame([i \in 1..Len(rows) |-> [rows[i] EXCEPT !.run_timestamp = ToDatetime(@)]])

get_training_frame(preds_table, res_table, model_id) ==
    LET preds == QueryPredictions(preds_table, model_id)
    IN  IF preds = <<>> THEN NoFrame
        ELSE LET res == QueryResults(res_table, preds)
             IN  IF res = <<>> THEN NoFrame
                 ELSE LET exact == ExactJoin(DictKeys(ExactKeys(preds)), preds, res)
                          rows  == FallbackJoin(DictKeys(MolKeys(preds)), preds, res, exact)
                      IN  FrameOrNone(rows)

-----------------------------------------------------------------------------
(* Actions on the record store *)

IdleStore == /\ predictions = <<>>
             /\ results = <<>>
             /\ frame = NotCalled
             /\ frame_model = None
IdleDrift == /\ df = NoFrame
             /\ cutoff_days = 0
             /\ drift = [pc |-> "start"]

\* no second call of detect_drift
IdleTwin  == /\ df_twin = NoFrame
             /\ drift_twin = [pc |-> "start"]

IdleCorr  == /\ files = [q \in {} |-> {}]
             /\ trained = {}
             /\ latest_fit = [m \in {} |-> {}]
             /\ corr = [op |-> "none"]

\* an empty correction_models table, no request served yet
IdleEndpoint == /\ correction_models = <<>>
                /\ response = [endpoint |-> "none"]

\* BackgroundTaskManager.__init__ on an empty drift_checks table
IdleDriver == /\ running = FALSE
              /\ task = 0
              /\ tasks = <<>>
              /\ cpu = 0
              /\ now = 0
              /\ drift_checks = <<>>
              /\ notified = {}
              /\ stop_called = FALSE

\* no call of calculate_metrics
IdleMetrics == /\ m_predictions = <<>>
               /\ m_actuals = <<>>
               /\ metrics = [status |-> "not called"]

\* no call of compute_psi
IdlePsi == /\ psi_expected = <<>>
           /\ psi_actual = <<>>
           /\ psi_out = [status |-> "not called"]

\* no call of calculate_metrics_by_time_buckets
IdleBuckets == /\ records = <<>>
               /\ bucket_size = "week"
               /\ buckets = [status |-> "not called"]

\* no round trip of training and applying
IdleRound == /\ round_df = <<>>

\* InMemoryStore() (__post_init__), latest not called
IdleLinks == /\ links = <<>>
             /\ linked = <<>>
             /\ latest_out = [status |-> "not called"]

\* every component at rest
Idle == IdleStore /\ IdleDrift /\ IdleTwin /\ IdleCorr /\ IdleEndpoint /\ IdleDriver /\ IdleMetrics /\ IdlePsi /\ IdleBuckets /\ IdleRound /\ IdleLinks

\* a prediction arrives; a pending return value of get_training_frame is dropped
AddPrediction(maxp, mols, models, contexts) ==
    /\ Len(predictions) < maxp
    /\ \E mol \in mols, model \in models, ver \in Versions, ctx \in contexts :
          predictions' = Append(predictions,
                                NewPrediction(Len(predictions) + 1, mol, model, ver, ctx))
    /\ frame' = NotCalled
    /\ frame_model' = None
    /\ UNCHANGED <<results, exceptStore>>

\* a lab result arrives
AddResult(maxr, mols, contexts) ==
    /\ Len(results) < maxr
    /\ \E mol \in mols, ver \in Versions, ctx \in contexts :
          results' = Append(results, NewResult(Len(results) + 1, mol, ver, ctx))
    /\ frame' = NotCalled
    /\ frame_model' = None
    /\ UNCHANGED <<predictions, exceptStore>>

\* a caller runs get_training_frame(db, model_id)
GetTrainingFrame ==
    /\ frame = NotCalled
    /\ \E model_id \in Models :
          /\ frame' = get_training_frame(predictions, results, model_id)
          /\ frame_model' = model_id
    /\ UNCHANGED <<predictions, results, exceptStore>>

Init == Idle

Next == \/ AddPrediction(MaxPreds, Molecules, Models, {PredContextFixed})
        \/ AddResult(MaxResults, Molecules, {ResultContextFixed})
        \/ GetTrainingFrame

\* the reconciler over records whose assay tags, molecules and models vary
Spec == Init /\ [][Next]_vars

NextContext == \/ AddPrediction(MaxCtxPreds, {"mol_a"}, {"M1"}, PredContexts)
               \/ AddResult(MaxCtxResults, {"mol_a"}, ResultContexts)
               \/ GetTrainingFrame

\* the reconciler over records whose context fields vary
SpecContext == Init /\ [][NextContext]_vars

-----------------------------------------------------------------------------
(* detect_drift and compute_psi *)

\* settings (app/core/config.py), p-values and PSI in thousandths
KS_THRESHOLD == 50
PSI_THRESHOLD == 250
DRIFT_CUTOFF_DAYS == 30

\* minimum number of rows of each window (line 157)
MIN_WINDOW_ROWS == 10


\* A frame handed to detect_drift is described by at most MaxBlocks runs of equal
\* rows; a run has BlockSizes rows with one timestamp and one measured value
MaxBlocks == 2
BlockSizes == {1, 9, 10}
Stamps == {NaT, 0, 31}
Measured == {1, 2}
Blocks == [size : BlockSizes, run_timestamp : Stamps, y_true : Measured]
BlockSeqs == UNION {[1..k -> Blocks] : k \in 0..MaxBlocks}

\* the rows of the DataFrame described by a sequence of runs; `index` is the
\* DataFrame index of the row
RECURSIVE Expand(_)
Expand(blocks) ==
    IF blocks = <<>> THEN <<>>
    ELSE LET front == Expand(SubSeq(blocks, 1, Len(blocks) - 1))
             b     == blocks[Len(blocks)]
         IN  front \o [i \in 1..b.size |->
                          [index |-> Len(front) + i,
                           run_timestamp |-> b.run_timestamp,
                           y_true |-> b.y_true]]

\* results of scipy.stats.ks_2samp (statistic, p-value) that the library may return
KsOutcomes == {<<0, 1000>>, <<300, 51>>, <<350, 50>>, <<400, 49>>}

\* values of the floating-point sum accumulated by compute_psi (lines 33-37)
PsiSums == {0 - 251, 0, 250, 251}

\* order of sort_values("run_timestamp"): ascending, NaT last
SortsBefore(a, b) ==
    /\ a.run_timestamp # NaT
    /\ (b.run_timestamp = NaT \/ a.run_timestamp < b.run_timestamp)

\* df.sort_values("run_timestamp") (line 135), rows of equal timestamp keep their order
RECURSIVE SortValues(_)
SortValues(rows) ==
    IF rows = <<>> THEN <<>>
    ELSE LET front == SortValues(SubSeq(rows, 1, Len(rows) - 1))
             x     == rows[Len(rows)]
             k     == Cardinality({i \in 1..Len(front) : ~SortsBefore(x, front[i])})
         IN  SubSeq(front, 1, k) \o <<x>> \o SubSeq(front, k + 1, Len(front))

\* df["run_timestamp"].isna().all() (line 137)
AllNaT(rows) == \A i \in 1..Len(rows) : rows[i].run_timestamp = NaT

\* lines 139-140: no timestamps at all
NoTimestampSplit(rows) ==
    [recent   |-> rows,
     baseline |-> IF Len(rows) > 1 THEN SubSeq(rows, 1, Len(rows) \div 2) ELSE rows]

\* lines 145-147: first half / second half of the sorted rows
IndexSplit(rows) ==
    LET mid_point == Len(rows) \div 2
    IN  [baseline |-> SubSeq(rows, 1, mid_point),
         recent   |-> SubSeq(rows, mid_point + 1, Len(rows))]

\* df["run_timestamp"].max(): NaT is skipped
MaxTime(rows) ==
    CHOOSE t \in {rows[i].run_timestamp : i \in 1..Len(rows)} \ {NaT} :
        \A i \in 1..Len(rows) : rows[i].run_timestamp <= t

\* lines 151-154: rows at or after the cutoff / rows before it (NaT compares false)
TimeSplit(rows, days) ==
    LET cutoff_time == MaxTime(rows) - days
    IN  [recent   |-> SelectSeq(rows, LAMBDA r : r.run_timestamp # NaT
                                                 /\ r.run_timestamp >= cutoff_time),
         baseline |-> SelectSeq(rows, LAMBDA r : r.run_timestamp # NaT
                                                 /\ r.run_timestamp < cutoff_time)]

\* lines 137-154 on the sorted rows
SplitWindows_TimeFirst(rows, days) ==
    IF AllNaT(rows) THEN NoTimestampSplit(rows)
    ELSE LET w == TimeSplit(rows, days)
         IN  IF Len(w.baseline) = 0 \/ Len(w.recent) = 0 THEN IndexSplit(rows) ELSE w
SplitWindows(rows, days) ==
    IF AllNaT(rows) THEN NoTimestampSplit(rows)
    ELSE LET w == IndexSplit(rows)
         IN  IF Len(w.baseline) = 0 \/ Len(w.recent) = 0 THEN TimeSplit(rows, days) ELSE w

\* line 157, negated: both windows hold enough rows
EnoughData_Either(baseline, recent) ==
    ~(Len(baseline) < MIN_WINDOW_ROWS /\ Len(recent) < MIN_WINDOW_ROWS)
EnoughData(baseline, recent) ==
    ~(Len(baseline) < MIN_WINDOW_ROWS \/ Len(recent) < MIN_WINDOW_ROWS)

\* baseline["y_true"].values / recent["y_true"].values (lines 166-167)
YTrue_Predicted(rows) == [i \in 1..Len(rows) |-> rows[i].y_pred]
YTrue(rows) == [i \in 1..Len(rows) |-> rows[i].y_true]
MinOf(values) == CHOOSE v \in Range(values) : \A w \in Range(values) : v <= w
MaxOf(values) == CHOOSE v \in Range(values) : \A w \in Range(values) : v >= w

\* compute_psi: 0.0 for an empty sample or a single-valued combined range, else the
\* absolute value of the accumulated sum
compute_psi_Signed(expected, actual, float_sum) ==
    IF Len(expected) = 0 \/ Len(actual) = 0 THEN 0
    ELSE IF MaxOf(expected \o actual) = MinOf(expected \o actual) THEN 0
         ELSE float_sum
compute_psi(expected, actual, float_sum) ==
    IF Len(expected) = 0 \/ Len(actual) = 0 THEN 0
    ELSE IF MaxOf(expected \o actual) = MinOf(expected \o actual) THEN 0
         ELSE IF float_sum < 0 THEN 0 - float_sum ELSE float_sum

\* lines 176-179
DriftDetected_Both(ks_p, psi) == ks_p < KS_THRESHOLD /\ psi > PSI_THRESHOLD
DriftDetected(ks_p, psi) == ks_p < KS_THRESHOLD \/ psi > PSI_THRESHOLD

\* the sum of the first k values, and of all values
RECURSIVE SumTo(_, _)
SumTo(values, k) == IF k = 0 THEN 0 ELSE values[k] + SumTo(values, k - 1)
SumOf(values) == SumTo(values, Len(values))

\* elementwise a * b and a - b of two arrays of one length
Products(a, b) == [i \in 1..Len(a) |-> a[i] * b[i]]
Errors(a, b) == [i \in 1..Len(a) |-> a[i] - b[i]]

\* n^2 times the variance of x, and n^2 times the covariance of x and y
Variance(x) == Len(x) * SumOf(Products(x, x)) - SumOf(x) * SumOf(x)
Covariance(x, y) == Len(x) * SumOf(Products(x, y)) - SumOf(x) * SumOf(y)

\* ndarray.mean(), in thousandths
Mean(values) == (SumOf(values) * 1000) \div Len(values)

\* detect_drift, lines 131-154: the two local windows, or the early return for a
\* missing or empty frame
Windows(frame_arg, days) ==
    IF frame_arg = NoFrame \/ Len(frame_arg.rows) = 0
    THEN [returned |-> TRUE, baseline |-> <<>>, recent |-> <<>>]
    ELSE LET w == SplitWindows(SortValues(frame_arg.rows), days)
         IN  [returned |-> FALSE, baseline |-> w.baseline, recent |-> w.recent]

\* detect_drift, lines 132 and 156-191: the returned dict; ks is what ks_2samp
\* returns and float_sum what the PSI loop accumulates
Report(w, ks, float_sum) ==
    IF w.returned THEN [enough_data |-> FALSE, drift_detected |-> "NO"]
    ELSE IF ~EnoughData(w.baseline, w.recent)
         THEN [enough_data |-> FALSE, drift_detected |-> "NO",
               baseline_samples |-> Len(w.baseline),
               recent_samples |-> Len(w.recent)]
         ELSE LET psi == compute_psi(YTrue(w.baseline), YTrue(w.recent), float_sum)
              IN  [enough_data |-> TRUE,
                   drift_detected |-> IF DriftDetected(ks[2], psi) THEN "YES" ELSE "NO",
                   ks_stat |-> ks[1],
                   ks_p |-> ks[2],
                   psi |-> psi,
                   baseline_samples |-> Len(w.baseline),
                   recent_samples |-> Len(w.recent),
                   baseline_mean |-> Mean(YTrue(w.baseline)),
                   recent_mean |-> Mean(YTrue(w.recent))]

\* detect_drift(df, cutoff_days), first step: sort and split (lines 128-154)
DetectDriftSplit ==
    /\ drift.pc = "start"
    /\ LET w == Windows(df, cutoff_days)
       IN  drift' = [pc |-> "split", returned |-> w.returned,
                     baseline |-> w.baseline, recent |-> w.recent]
    /\ UNCHANGED <<df, cutoff_days, exceptDrift>>

\* detect_drift(df, cutoff_days), second step: the library calls and the returned
\* dict (lines 132, 156-191)
DetectDriftReport ==
    /\ drift.pc = "split"
    /\ \E ks \in KsOutcomes, float_sum \in PsiSums :
          drift' = [pc |-> "done", ret |-> Report(drift, ks, float_sum),
                    baseline |-> drift.baseline, recent |-> drift.recent]
    /\ UNCHANGED <<df, cutoff_days, exceptDrift>>

InitDrift ==
    /\ df \in {NoFrame} \cup {DataFrame(Expand(b)) : b \in BlockSeqs}
    /\ cutoff_days \in {DRIFT_CUTOFF_DAYS, 7}
    /\ drift = [pc |-> "start"]
    /\ IdleTwin
    /\ IdleStore
    /\ IdleCorr
    /\ IdleEndpoint
    /\ IdleDriver
    /\ IdleMetrics
    /\ IdlePsi
    /\ IdleBuckets
    /\ IdleRound
    /\ IdleLinks

NextDrift == DetectDriftSplit \/ DetectDriftReport

\* detect_drift applied to every frame of at most MaxBlocks runs
SpecDrift == InitDrift /\ [][NextDrift]_vars

-----------------------------------------------------------------------------
(* detect_drift called on two frames that agree on run_timestamp and y_true *)

\* the two frames are described by at most MaxTwinBlocks runs of equal rows
MaxTwinBlocks == 2
TwinBlockSizes == {10}
TwinBlocks == [size : TwinBlockSizes, run_timestamp : Stamps, y_true : Measured]
TwinBlockSeqs == UNION {[1..k -> TwinBlocks] : k \in 0..MaxTwinBlocks}

\* the other columns of a Training Frame row: the predicted value and the context
PlainColumns == [y_pred |-> 3, reagent_batch |-> None, instrument_id |-> None]
OtherColumns == {PlainColumns,
                 [y_pred |-> 4, reagent_batch |-> "RB_01", instrument_id |-> "LCMS_R"]}

\* the rows of the DataFrame described by a sequence of runs, the rows of run k
\* carrying the other columns cols[k]
RECURSIVE ExpandTwin(_, _)
ExpandTwin(blocks, cols) ==
    IF blocks = <<>> THEN <<>>
    ELSE LET n     == Len(blocks)
             front == ExpandTwin(SubSeq(blocks, 1, n - 1), SubSeq(cols, 1, n - 1))
         IN  front \o [i \in 1..blocks[n].size |->
                          [index |-> Len(front) + i,
                           run_timestamp |-> blocks[n].run_timestamp,
                           y_true |-> blocks[n].y_true,
                           y_pred |-> cols[n].y_pred,
                           reagent_batch |-> cols[n].reagent_batch,
                           instrument_id |-> cols[n].instrument_id]]

exceptTwin == <<storeVars, driftVars, corrVars, endpointVars, driverVars, metricVars, psiVars, bucketVars, roundVars, linkVars>>

\* the second call hands ks_2samp and compute_psi the arrays of the first call
SameSamples ==
    /\ YTrue(drift_twin.baseline) = YTrue(drift.baseline)
    /\ YTrue(drift_twin.recent) = YTrue(drift.recent)

\* ks_2samp and the PSI loop are functions of their two arrays: called again on
\* the same arrays they return what they returned before
Repeats(ks, float_sum) ==
    (SameSamples /\ drift.ret.enough_data) =>
        /\ ks = <<drift.ret.ks_stat, drift.ret.ks_p>>
        /\ compute_psi(YTrue(drift_twin.baseline), YTrue(drift_twin.recent), float_sum)
              = drift.ret.psi

\* detect_drift(df_twin, cutoff_days), first step (lines 128-154)
TwinSplit ==
    /\ drift.pc = "done"
    /\ drift_twin.pc = "start"
    /\ LET w == Windows(df_twin, cutoff_days)
       IN  drift_twin' = [pc |-> "split", returned |-> w.returned,
                          baseline |-> w.baseline, recent |-> w.recent]
    /\ UNCHANGED <<df_twin, exceptTwin>>

\* detect_drift(df_twin, cutoff_days), second step (lines 132, 156-191)
TwinReport ==
    /\ drift_twin.pc = "split"
    /\ \E ks \in KsOutcomes, float_sum \in PsiSums :
          /\ Repeats(ks, float_sum)
          /\ drift_twin' = [pc |-> "done", ret |-> Report(drift_twin, ks, float_sum),
                            baseline |-> drift_twin.baseline,
                            recent |-> drift_twin.recent]
    /\ UNCHANGED <<df_twin, exceptTwin>>

InitTwin ==
    /\ \E blocks \in TwinBlockSeqs :
          /\ df = DataFrame(ExpandTwin(blocks, [k \in 1..Len(blocks) |-> PlainColumns]))
          /\ \E cols \in [1..Len(blocks) -> OtherColumns] :
                df_twin = DataFrame(ExpandTwin(blocks, cols))
    /\ cutoff_days = DRIFT_CUTOFF_DAYS
    /\ drift = [pc |-> "start"]
    /\ drift_twin = [pc |-> "start"]
    /\ IdleStore
    /\ IdleCorr
    /\ IdleEndpoint
    /\ IdleDriver
    /\ IdleMetrics
    /\ IdlePsi
    /\ IdleBuckets
    /\ IdleRound
    /\ IdleLinks

NextTwin == DetectDriftSplit \/ DetectDriftReport \/ TwinSplit \/ TwinReport

\* detect_drift applied to a frame and then to a frame with the same timestamps and
\* measured values, in the same rows, and other predicted values and context
SpecTwin == InitTwin /\ [][NextTwin]_vars

-----------------------------------------------------------------------------
(* compute_psi called directly *)

\* the two samples handed to compute_psi have at most MaxSample values
MaxSample == 3
Samples == UNION {[1..k -> Measured] : k \in 0..MaxSample}

exceptPsi == <<storeVars, driftVars, twinVars, corrVars, endpointVars, driverVars, metricVars, bucketVars, roundVars, linkVars>>

\* compute_psi(expected, actual); float_sum is what the loop of lines 33-37 has
\* accumulated when it is reached
ComputePsi ==
    /\ psi_out.status = "not called"
    /\ \E float_sum \in PsiSums :
          psi_out' = [status |-> "ok",
                      ret |-> compute_psi(psi_expected, psi_actual, float_sum),
                      float_sum |-> float_sum]
    /\ UNCHANGED <<psi_expected, psi_actual, exceptPsi>>

InitPsi ==
    /\ psi_expected \in Samples
    /\ psi_actual \in Samples
    /\ psi_out = [status |-> "not called"]
    /\ IdleStore /\ IdleDrift /\ IdleTwin /\ IdleCorr /\ IdleEndpoint /\ IdleDriver /\ IdleMetrics /\ IdleBuckets /\ IdleRound /\ IdleLinks

NextPsi == ComputePsi

\* compute_psi applied to every pair of samples of at most MaxSample values
SpecPsi == InitPsi /\ [][NextPsi]_vars

-----------------------------------------------------------------------------
(* train_correction_layer, load_correction_layer, apply_correction *)

\* settings.CORRECTION_DIR (its default)
CORRECTION_DIR == "./corrections"

\* minimum number of complete rows to train (line 23)
MIN_TRAIN_ROWS == 10

\* float NaN / missing value of a numeric column
NaN == 0 - 1000

ModelIds == {"m1", "m2"}

\* A frame handed to train_correction_layer is described by at most MaxTrainBlocks
\* runs of equal rows; a batch handed to apply_correction has at most MaxBatch rows
MaxTrainBlocks == 1
MaxBatch == 2
TrainBlockSizes == {9, 10}
TrainBlocks ==
    {b \in [size : TrainBlockSizes, y_pred : {NaN, 3}, y_true : {NaN, 7},
            reagent_batch : {None, "RB_01"}] :
        \/ b.y_pred # NaN /\ b.y_true # NaN /\ (b.size = 10 \/ b.reagent_batch = None)
        \/ b.size = 10 /\ b.reagent_batch = None /\ (b.y_pred # NaN \/ b.y_true # NaN)}
TrainBlockSeqs == UNION {[1..k -> TrainBlocks] : k \in 0..MaxTrainBlocks}

RECURSIVE ExpandTrain(_)
ExpandTrain(blocks) ==
    IF blocks = <<>> THEN <<>>
    ELSE LET b == blocks[Len(blocks)]
         IN  ExpandTrain(SubSeq(blocks, 1, Len(blocks) - 1))
                \o [i \in 1..b.size |->
                       [y_pred |-> b.y_pred, y_true |-> b.y_true,
                        reagent_batch |-> b.reagent_batch, instrument_id |-> None]]

\* the batches handed to apply_correction: 1..MaxBatch rows
ApplyRows == [y_pred : {3}, reagent_batch : {None, "RB_01", "RB_09"},
              instrument_id : {None}]
ApplyBatches == UNION {[1..k -> ApplyRows] : k \in 1..MaxBatch}

\* df.dropna(subset=["y_pred", "y_true"]) (line 21)
DropNa_PredOnly(rows) == SelectSeq(rows, LAMBDA r : r.y_pred # NaN)
DropNa(rows) == SelectSeq(rows, LAMBDA r : r.y_pred # NaN /\ r.y_true # NaN)

\* .fillna("unknown") on a categorical column (lines 31-32, 100-101)
FillNa(x) == IF x = None THEN "unknown" ELSE x

\* Ridge(alpha=1.0)
ALPHA == 1

\* every row has the same reagent_batch and the same instrument_id: each one-hot
\* column is constant
ContextConstant(rows) ==
    \A i \in 1..Len(rows) :
        /\ FillNa(rows[i].reagent_batch) = FillNa(rows[1].reagent_batch)
        /\ FillNa(rows[i].instrument_id) = FillNa(rows[1].instrument_id)

\* the sums of y_pred ("x"), y_true ("y"), y_pred^2 and y_pred * y_true over the
\* first k rows
RECURSIVE RowSum(_, _, _)
RowSum(rows, k, term) ==
    IF k = 0 THEN 0
    ELSE RowSum(rows, k - 1, term)
            + (IF term = "x" THEN rows[k].y_pred
               ELSE IF term = "y" THEN rows[k].y_true
               ELSE IF term = "xx" THEN rows[k].y_pred * rows[k].y_pred
               ELSE rows[k].y_pred * rows[k].y_true)

\* Ridge.fit with fit_intercept=True on n rows: the minimiser of
\*   sum (y - b - w.x)^2 + alpha * |w|^2 .
\* A constant column gets the weight 0, so for rows of one context the fit is
\*   slope = Sxy / (Sxx + alpha),  intercept = mean(y) - slope * mean(x)
\* over the centred sums Sxx, Sxy; as exact rationals [num, den], the denominator
\* of the intercept being n times that of the slope. The coefficients of a frame
\* of several contexts are not computed.
RidgeCoef_NoIntercept(rows) ==
    IF ~ContextConstant(rows) THEN [kind |-> "not computed"]
    ELSE [kind |-> "ridge",
          slope |-> [num |-> RowSum(rows, Len(rows), "xy"),
                     den |-> RowSum(rows, Len(rows), "xx") + ALPHA],
          intercept |-> [num |-> 0, den |-> RowSum(rows, Len(rows), "xx") + ALPHA]]
RidgeCoef(rows) ==
    LET n == Len(rows)
        sx == RowSum(rows, n, "x")
        sy == RowSum(rows, n, "y")
        cov == n * RowSum(rows, n, "xy") - sx * sy
        den == n * RowSum(rows, n, "xx") - sx * sx + n * ALPHA
    IN  IF ~ContextConstant(rows) THEN [kind |-> "not computed"]
        ELSE [kind |-> "ridge",
              slope |-> [num |-> cov, den |-> den],
              intercept |-> [num |-> sy * den - cov * sx, den |-> n * den]]

\* the value the regressor gives a row: intercept + slope * y_pred, the weights of
\* the one-hot columns being 0
RidgeValue(coef, y_pred) ==
    IF coef.kind # "ridge" THEN [kind |-> "not computed"]
    ELSE [num |-> coef.intercept.num
                     + coef.slope.num * (coef.intercept.den \div coef.slope.den) * y_pred,
          den |-> coef.intercept.den]

\* pipe.fit(X, y): the fitted pipeline, described by what the encoder has seen, the
\* number of rows the regressor was fitted on and its coefficients
Fit(rows) ==
    [fitted_rows |-> Len(rows),
     batch_categories |-> {FillNa(rows[i].reagent_batch) : i \in 1..Len(rows)},
     instrument_categories |-> {FillNa(rows[i].instrument_id) : i \in 1..Len(rows)},
     coef |-> RidgeCoef(rows)]

\* one-hot encoding with handle_unknown="ignore": an unseen category encodes to zeros
Encode(categories, x) == IF FillNa(x) \in categories THEN FillNa(x) ELSE "<zeros>"

\* pipe.predict(X): one value per row, with the encoded features it is computed from
Predict(pipe, rows) ==
    [i \in 1..Len(rows) |->
        [y_pred |-> rows[i].y_pred,
         batch |-> Encode(pipe.batch_categories, rows[i].reagent_batch),
         instrument |-> Encode(pipe.instrument_categories, rows[i].instrument_id),
         value |-> RidgeValue(pipe.coef, rows[i].y_pred)]]

\* os.path.join(settings.CORRECTION_DIR, f"{model_id}_correction.joblib")
CorrectionPath_Shared(model_id) == CORRECTION_DIR \o "/" \o "_correction.joblib"
CorrectionPath(model_id) == CORRECTION_DIR \o "/" \o model_id \o "_correction.joblib"

\* joblib.dump(pipe, path) on the directory content
Dump_KeepExisting(dir, path, pipe) ==
    [q \in DOMAIN dir \cup {path} |-> IF q \in DOMAIN dir THEN dir[q] ELSE pipe]
Dump(dir, path, pipe) ==
    [q \in DOMAIN dir \cup {path} |-> IF q = path THEN pipe ELSE dir[q]]

\* load_correction_layer: os.path.exists(path)
Exists(dir, path) == path \in DOMAIN dir

\* what a call of train_correction_layer was given: the number of rows of df and
\* the number of them that carry both a predicted and a measured value
Given(rows) ==
    [rows |-> Len(rows),
     complete |-> Cardinality({i \in 1..Len(rows) :
                                 rows[i].y_pred # NaN /\ rows[i].y_true # NaN})]

\* the body of train_correction_layer(df, model_id), df having the rows `rows`
train_correction_layer(rows, model_id) ==
    LET clean == DropNa(rows)
        path  == CorrectionPath(model_id)
        given == Given(rows)
    IN  IF Len(clean) < MIN_TRAIN_ROWS
        THEN /\ corr' = [op |-> "train", model_id |-> model_id, given |-> given,
                         status |-> "ValueError: Insufficient data"]
             /\ UNCHANGED <<files, trained, latest_fit>>
        ELSE \E pipe \in {Fit(clean)} :
             /\ files' = Dump(files, path, pipe)
             /\ trained' = trained \cup {model_id}
             /\ latest_fit' = [m \in DOMAIN latest_fit \cup {model_id} |->
                                 IF m = model_id THEN pipe ELSE latest_fit[m]]
             /\ corr' = [op |-> "train", model_id |-> model_id, given |-> given,
                         status |-> "ok",
                         ret |-> [model_id |-> model_id, file_path |-> path,
                                  training_samples |-> Len(clean)]]

\* a direct call of train_correction_layer(df, model_id)
TrainCorrectionLayer ==
    /\ \E blocks \in TrainBlockSeqs :
          LET rows == ExpandTrain(blocks)
          IN  \E model_id \in ModelIds : train_correction_layer(rows, model_id)
    /\ UNCHANGED <<exceptCorr, endpointVars>>

\* apply_correction(model_id, rows)
ApplyCorrection ==
    /\ \E model_id \in ModelIds, rows \in ApplyBatches :
          LET path == CorrectionPath(model_id)
          IN  IF ~Exists(files, path)
              THEN corr' = [op |-> "apply", model_id |-> model_id, rows |-> rows,
                            status |-> "ValueError: No correction model found"]
              ELSE corr' = [op |-> "apply", model_id |-> model_id, rows |-> rows,
                            status |-> "ok", ret |-> Predict(files[path], rows)]
    /\ UNCHANGED <<files, trained, latest_fit, exceptCorr, endpointVars>>

InitCorrection == Idle

NextCorrection == TrainCorrectionLayer \/ ApplyCorrection

\* any sequence of train and apply calls on an initially empty CORRECTION_DIR
SpecCorrection == InitCorrection /\ [][NextCorrection]_vars

-----------------------------------------------------------------------------
(* train_correction_layer followed by apply_correction on the same rows *)

\* the frame of a round trip is described by at most MaxRoundBlocks runs of equal
\* rows, all of one context
MaxRoundBlocks == 2
RoundBlockSizes == {5, 6}
RoundBlocks == [size : RoundBlockSizes, y_pred : {0, 1}, y_true : {0, 1},
                reagent_batch : {None}]
RoundBlockSeqs == UNION {[1..k -> RoundBlocks] : k \in 0..MaxRoundBlocks}

exceptRound == <<storeVars, driftVars, twinVars, driverVars, metricVars, psiVars, bucketVars, linkVars>>

\* train_correction_layer(df, model_id) on the frame of the round trip
RoundTripTrain ==
    /\ \E model_id \in ModelIds : train_correction_layer(round_df, model_id)
    /\ UNCHANGED <<round_df, exceptRound, endpointVars>>

\* apply_correction(model_id, df[["y_pred", "reagent_batch", "instrument_id"]])
RoundTripApply ==
    /\ corr.op = "train"
    /\ LET model_id == corr.model_id
           path == CorrectionPath(model_id)
           rows == [i \in 1..Len(round_df) |->
                       [y_pred |-> round_df[i].y_pred,
                        reagent_batch |-> round_df[i].reagent_batch,
                        instrument_id |-> round_df[i].instrument_id]]
       IN  IF ~Exists(files, path)
           THEN corr' = [op |-> "apply", model_id |-> model_id, rows |-> rows,
                         status |-> "ValueError: No correction model found"]
           ELSE corr' = [op |-> "apply", model_id |-> model_id, rows |-> rows,
                         status |-> "ok", ret |-> Predict(files[path], rows)]
    /\ UNCHANGED <<files, trained, latest_fit, round_df, exceptRound, endpointVars>>

InitRound ==
    /\ round_df \in {ExpandTrain(blocks) : blocks \in RoundBlockSeqs}
    /\ IdleStore /\ IdleDrift /\ IdleTwin /\ IdleCorr /\ IdleEndpoint /\ IdleDriver /\ IdleMetrics /\ IdlePsi /\ IdleBuckets /\ IdleLinks

NextRound == RoundTripTrain \/ RoundTripApply

\* training on a frame and applying the trained correction to the rows of that frame
SpecRound == InitRound /\ [][NextRound]_vars

-----------------------------------------------------------------------------
(* train_correction_endpoint  (app/api/routes_models.py) *)

\* the table correction_models holds at most MaxEntries rows in a run
MaxEntries == 3

\* db.query(Model): the registered models; a request may also name an unknown one
KnownModels == ModelIds
RequestModelIds == KnownModels \cup {"m_unknown"}

\* what get_training_frame hands to the endpoint: None or a frame with rows, here
\* one run of equal rows
EndpointFrames ==
    {NoFrame} \cup {DataFrame(ExpandTrain(<<b>>)) : b \in TrainBlocks}

\* raise HTTPException(status_code=..., detail=...)
HTTPException(code, detail) ==
    [endpoint |-> "train_correction", status_code |-> code, detail |-> detail]

\* CorrectionModel(model_id=model_id, file_path=result["file_path"], ...)
NewCorrectionModel(model_id, result) ==
    [model_id |-> model_id, file_path |-> result.file_path,
     training_samples |-> result.training_samples]

\* db.add(correction_model); db.commit(): the primary key is a fresh uuid
AddCorrectionModel_Upsert(table, row) ==
    IF \E i \in DOMAIN table : table[i].model_id = row.model_id
    THEN [i \in DOMAIN table |->
             IF table[i].model_id = row.model_id THEN row ELSE table[i]]
    ELSE Append(table, row)
AddCorrectionModel(table, row) == Append(table, row)

\* POST /models/{model_id}/train_correction
TrainCorrectionEndpoint ==
    /\ Len(correction_models) < MaxEntries
    /\ \E model_id \in RequestModelIds, f \in EndpointFrames :
          IF model_id \notin KnownModels
          THEN /\ response' = HTTPException(404, "Model not found")
               /\ UNCHANGED <<corrVars, correction_models>>
          ELSE IF f = NoFrame
          THEN /\ response' = HTTPException(400, "No matched predictions and results found")
               /\ UNCHANGED <<corrVars, correction_models>>
          ELSE /\ train_correction_layer(f.rows, model_id)
               /\ IF corr'.status # "ok"
                  THEN /\ response' = HTTPException(400, corr'.status)
                       /\ UNCHANGED correction_models
                  ELSE /\ correction_models' =
                             AddCorrectionModel(correction_models,
                                                NewCorrectionModel(model_id, corr'.ret))
                       /\ response' = [endpoint |-> "train_correction",
                                       status_code |-> 200, body |-> corr'.ret]
    /\ UNCHANGED exceptCorr

\* POST /models/{model_id}/retrain: both branches on model.model_type train the
\* correction layer on the complete rows and apply it to them (the corrected values
\* are not used); a ValueError of the training is answered with 500 by the handler
\* of `except Exception`. The endpoint sets model.last_retrained_at and commits; it
\* adds nothing to correction_models
RetrainModelEndpoint ==
    /\ \E model_id \in RequestModelIds, f \in EndpointFrames :
          IF model_id \notin KnownModels
          THEN /\ response' = [endpoint |-> "retrain", status_code |-> 404,
                               detail |-> "Model not found"]
               /\ UNCHANGED corrVars
          ELSE IF f = NoFrame \/ Len(f.rows) = 0
          THEN /\ response' = [endpoint |-> "retrain", status_code |-> 400,
                               detail |-> "No matched predictions and results found"]
               /\ UNCHANGED corrVars
          ELSE IF Len(DropNa(f.rows)) = 0
          THEN /\ response' = [endpoint |-> "retrain", status_code |-> 400,
                               detail |-> "No valid data points for retraining"]
               /\ UNCHANGED corrVars
          ELSE /\ train_correction_layer(DropNa(f.rows), model_id)
               /\ response' =
                     IF corr'.status # "ok"
                     THEN [endpoint |-> "retrain", status_code |-> 500,
                           detail |-> "Error retraining model: " \o corr'.status]
                     ELSE [endpoint |-> "retrain", status_code |-> 200,
                           body |-> [model_id |-> model_id,
                                     training_samples |-> Len(DropNa(f.rows)),
                                     retrained_at |-> "utcnow"]]
    /\ UNCHANGED <<correction_models, exceptCorr>>

InitEndpoint == Idle

NextEndpoint == TrainCorrectionEndpoint

\* any sequence of training requests on an empty table and an empty CORRECTION_DIR
SpecEndpoint == InitEndpoint /\ [][NextEndpoint]_vars

NextRetrain == TrainCorrectionEndpoint \/ RetrainModelEndpoint

\* any sequence of training and retraining requests
SpecRetrain == InitEndpoint /\ [][NextRetrain]_vars

-----------------------------------------------------------------------------
(* BackgroundTaskManager  (background_tasks.py)                              *)
(*                                                                           *)
(* asyncio runs one task at a time: a task that has been resumed keeps the   *)
(* event loop (cpu) until its next suspension, which is the broadcast to the *)
(* observers or the interval sleep. start(), stop() and the manual drift     *)
(* check run on the same loop, between task steps.                           *)

\* the clock stops at MaxClock; start() creates at most MaxTasks tasks; the manual
\* endpoints add at most MaxManual rows
MaxClock == 3
MaxTasks == 2
MaxManual == 1

\* self.task = None
NoTask == 0

\* timedelta(hours=1), in clock ticks
HOUR == 2

\* db.query(Model).all()
DriverModels == <<"M1", "M2">>

\* what the queries of one visit find for a model: the number of prediction rows,
\* of result rows for their molecules, and of molecules that have both
DriverData ==
    {[predictions |-> 0,  results |-> 0,  matched |-> 0],
     [predictions |-> 12, results |-> 9,  matched |-> 9],
     [predictions |-> 12, results |-> 11, matched |-> 9],
     [predictions |-> 12, results |-> 11, matched |-> 10]}

\* the three `continue` tests on the data (lines 38, 46, 61)
EnoughPairs(d) ==
    ~(d.predictions = 0) /\ ~(d.results = 0 \/ d.results < 10) /\ ~(d.matched < 10)

\* recent_check (lines 65-68): a row of the model not older than one hour
RecentCheck_Strict(table, model_id, t) ==
    \E i \in DOMAIN table :
        table[i].model_id = model_id /\ table[i].check_timestamp > t - HOUR
RecentCheck(table, model_id, t) ==
    \E i \in DOMAIN table :
        table[i].model_id = model_id /\ table[i].check_timestamp >= t - HOUR

\* DriftCheck(model_id=..., check_timestamp=datetime.utcnow(), ...); `matched` is
\* history: the number of pairs the visit found. The synchronous part of a visit
\* takes less than a clock tick: the cooldown query and the row read the same time
NewDriftCheck(model_id, ts, source, matched) ==
    [model_id |-> model_id, check_timestamp |-> ts, source |-> source,
     matched |-> matched]

\* db.add(drift_check) and the db.commit() that writes it: a new row, its primary
\* key being fresh
AddDriftCheck_Replace(table, row) ==
    IF \E i \in DOMAIN table : table[i].model_id = row.model_id
    THEN [i \in DOMAIN table |-> IF table[i].model_id = row.model_id THEN row ELSE table[i]]
    ELSE Append(table, row)
AddDriftCheck(table, row) == Append(table, row)

\* how the rest of a visit can end once both tests are passed: an exception of
\* detect_drift or of the conversions (lines 74-105), of AuditLogger.log at its
\* db.commit() or at its db.refresh() (audit_logger.py 72-74), of db.commit()
\* (line 122), or none
VisitOutcomes ==
    {"raise before add", "raise in audit commit", "raise in audit refresh",
     "raise in commit", "ok"}

\* AuditLogger.log commits the session that holds the new DriftCheck: the row is
\* in the table as soon as that commit has returned
Persisted(outcome) ==
    outcome \in {"raise in audit refresh", "raise in commit", "ok"}

\* the outcomes handled by `except Exception` of the visit (lines 142-145)
Raised(outcome) ==
    outcome \in {"raise before add", "raise in audit commit",
                 "raise in audit refresh", "raise in commit"}

\* asyncio.create_task(self.run_periodic_checks(...)); `raised` and `ws_error` are
\* history: the last visit of the running sweep ended in the handler of lines
\* 142-145, or passed through the handler of lines 137-138
NewTask == [pc |-> "created", pos |-> 1, cancel |-> FALSE, raised |-> FALSE, check |-> 0,
            ws_error |-> FALSE]

\* the task is at the top of check_all_models_for_drift
BeginSweep(t) ==
    [t EXCEPT !.pc = "sweep", !.pos = 1, !.raised = FALSE, !.check = 0, !.ws_error = FALSE]

\* start()
Start ==
    /\ cpu = NoTask
    /\ IF running
       THEN UNCHANGED <<task, tasks>>
       ELSE /\ Len(tasks) < MaxTasks
            /\ tasks' = Append(tasks, NewTask)
            /\ task' = Len(tasks) + 1
    /\ stop_called' = FALSE
    /\ UNCHANGED <<running, cpu, now, drift_checks, notified, exceptDriver>>

\* stop(): Task.cancel() has no effect on a task that has ended
Stop ==
    /\ cpu = NoTask
    /\ running' = FALSE
    /\ tasks' = IF task # NoTask /\ tasks[task].pc \notin {"done", "cancelled"}
                THEN [tasks EXCEPT ![task].cancel = TRUE]
                ELSE tasks
    /\ stop_called' = TRUE
    /\ UNCHANGED <<task, cpu, now, drift_checks, notified, exceptDriver>>

\* the event loop runs a created task for the first time (lines 152-155); a task
\* cancelled before that never runs
FirstRun(t) ==
    /\ t \in DOMAIN tasks
    /\ cpu = NoTask
    /\ tasks[t].pc = "created"
    /\ IF tasks[t].cancel
       THEN /\ tasks' = [tasks EXCEPT ![t].pc = "cancelled"]
            /\ UNCHANGED <<running, cpu>>
       ELSE /\ running' = TRUE
            /\ tasks' = [tasks EXCEPT ![t] = BeginSweep(@)]
            /\ cpu' = t
    /\ UNCHANGED <<task, now, drift_checks, notified, stop_called, exceptDriver>>

\* db.query(Model).all() raises: the exception leaves the sweep and is caught by
\* run_periodic_checks (lines 156-160), which goes to sleep
SweepRaises_Escapes(t) ==
    /\ t \in DOMAIN tasks
    /\ cpu = t
    /\ tasks[t].pc = "sweep" /\ tasks[t].pos = 1
    /\ tasks' = [tasks EXCEPT ![t].pc = "done"]
    /\ cpu' = NoTask
    /\ UNCHANGED <<running, task, now, drift_checks, notified, stop_called, exceptDriver>>
SweepRaises(t) ==
    /\ t \in DOMAIN tasks
    /\ cpu = t
    /\ tasks[t].pc = "sweep" /\ tasks[t].pos = 1
    /\ tasks' = [tasks EXCEPT ![t].pc = "sleeping"]
    /\ cpu' = NoTask
    /\ UNCHANGED <<running, task, now, drift_checks, notified, stop_called, exceptDriver>>

\* one pass of the loop body for the model at tasks[t].pos, up to the broadcast
\* (lines 32-122 and 142-145)
ProcessModel(t) ==
    /\ t \in DOMAIN tasks
    /\ cpu = t
    /\ tasks[t].pc = "sweep" /\ tasks[t].pos <= Len(DriverModels)
    /\ \E d \in DriverData, o \in VisitOutcomes :
          LET model_id == DriverModels[tasks[t].pos]
              outcome ==
                  IF o = "raise before add" THEN o
                  ELSE IF ~EnoughPairs(d) THEN "skip: data"
                  ELSE IF RecentCheck(drift_checks, model_id, now) THEN "skip: recent check"
                  ELSE o
          IN  /\ drift_checks' =
                    IF Persisted(outcome)
                    THEN AddDriftCheck(drift_checks,
                                       NewDriftCheck(model_id, now, "driver", d.matched))
                    ELSE drift_checks
              /\ tasks' = [tasks EXCEPT ![t] =
                    IF outcome = "ok"
                    THEN [@ EXCEPT !.pc = "broadcast", !.raised = FALSE,
                                   !.ws_error = FALSE,
                                   !.check = Len(drift_checks) + 1]
                    ELSE [@ EXCEPT !.pos = @ + 1, !.raised = Raised(outcome),
                                   !.ws_error = FALSE]]
    /\ UNCHANGED <<running, task, cpu, now, notified, stop_called, exceptDriver>>

\* the visit goes on after the broadcast has returned or raised (lines 137-140);
\* a message is named by the row it reports
AfterBroadcast_Unhandled(t, sent) ==
    /\ notified' = IF sent THEN notified \cup {tasks[t].check} ELSE notified
    /\ tasks' = [tasks EXCEPT ![t].pc = IF sent THEN "sweep" ELSE "sleeping",
                              ![t].pos = @ + 1, ![t].check = 0, ![t].ws_error = ~sent]
AfterBroadcast(t, sent) ==
    /\ notified' = IF sent THEN notified \cup {tasks[t].check} ELSE notified
    /\ tasks' = [tasks EXCEPT ![t].pc = "sweep", ![t].pos = @ + 1, ![t].check = 0,
                              ![t].ws_error = ~sent]

\* await ws_manager.broadcast_drift_check(...) (lines 125-138): it returns, raises
\* or suspends the task at a send
Broadcast(t) ==
    /\ t \in DOMAIN tasks
    /\ cpu = t
    /\ tasks[t].pc = "broadcast"
    /\ \/ \E sent \in BOOLEAN : AfterBroadcast(t, sent) /\ UNCHANGED cpu
       \/ /\ tasks' = [tasks EXCEPT ![t].pc = "broadcast wait"]
          /\ cpu' = NoTask
          /\ UNCHANGED notified
    /\ UNCHANGED <<running, task, now, drift_checks, stop_called, exceptDriver>>

\* the event loop resumes a task suspended in the broadcast; a CancelledError is
\* no Exception, it passes both handlers and ends the task
BroadcastResume(t) ==
    /\ t \in DOMAIN tasks
    /\ cpu = NoTask
    /\ tasks[t].pc = "broadcast wait"
    /\ IF tasks[t].cancel
       THEN /\ tasks' = [tasks EXCEPT ![t].pc = "cancelled"]
            /\ UNCHANGED <<cpu, notified>>
       ELSE /\ \E sent \in BOOLEAN : AfterBroadcast(t, sent)
            /\ cpu' = t
    /\ UNCHANGED <<running, task, now, drift_checks, stop_called, exceptDriver>>

\* the sweep has visited every model: await asyncio.sleep(...) (line 160)
EndSweep(t) ==
    /\ t \in DOMAIN tasks
    /\ cpu = t
    /\ tasks[t].pc = "sweep" /\ tasks[t].pos > Len(DriverModels)
    /\ tasks' = [tasks EXCEPT ![t].pc = "sleeping", ![t].raised = FALSE,
                              ![t].ws_error = FALSE]
    /\ cpu' = NoTask
    /\ UNCHANGED <<running, task, now, drift_checks, notified, stop_called, exceptDriver>>

\* the sleep ends, after any interval: `while self.running` (line 153)
Wake(t) ==
    /\ t \in DOMAIN tasks
    /\ cpu = NoTask
    /\ tasks[t].pc = "sleeping"
    /\ IF tasks[t].cancel
       THEN tasks' = [tasks EXCEPT ![t].pc = "cancelled"] /\ UNCHANGED cpu
       ELSE IF running
       THEN tasks' = [tasks EXCEPT ![t] = BeginSweep(@)] /\ cpu' = t
       ELSE tasks' = [tasks EXCEPT ![t].pc = "done"] /\ UNCHANGED cpu
    /\ UNCHANGED <<running, task, now, drift_checks, notified, stop_called, exceptDriver>>

\* time passes
Tick ==
    /\ now < MaxClock
    /\ now' = now + 1
    /\ UNCHANGED <<running, task, tasks, cpu, drift_checks, notified, stop_called,
                   exceptDriver>>

\* how a request to a manual endpoint can end: model not found (404), no or too
\* few pairs (400), an exception before db.commit() has returned (500), an
\* exception of db.refresh() after it (500), or the response 200
ManualOutcomes == {"404", "400", "raise before commit", "raise in refresh", "ok"}
StatusCode(outcome) ==
    IF outcome = "ok" THEN 200
    ELSE IF outcome = "404" THEN 404
    ELSE IF outcome = "400" THEN 400
    ELSE 500

\* the number of requests the manual endpoints have served
Served == IF response.endpoint = "check_drift" THEN response.served ELSE 0

exceptChecks == <<storeVars, driftVars, twinVars, corrVars, correction_models, metricVars, psiVars, bucketVars, roundVars, linkVars>>

\* POST /models/{model_id}/check_drift and POST /drift-checks/run: a drift check of
\* another source than the driver, ending in one of `outcomes`; a row is written
\* for at least 10 pairs only
ManualCheck(outcomes) ==
    /\ cpu = NoTask
    /\ Served < MaxManual
    /\ \E i \in DOMAIN DriverModels, o \in outcomes :
          /\ drift_checks' =
                IF o \in {"raise in refresh", "ok"}
                THEN AddDriftCheck(drift_checks,
                                   NewDriftCheck(DriverModels[i], now, "manual", 10))
                ELSE drift_checks
          /\ response' = [endpoint |-> "check_drift", served |-> Served + 1,
                          status_code |-> StatusCode(o),
                          model_id |-> IF o = "404" THEN "m_unknown" ELSE DriverModels[i]]
    /\ UNCHANGED <<running, task, tasks, cpu, now, notified, stop_called, exceptChecks>>

\* the tasks start() can create
TaskIds == 1..MaxTasks

InitDriver == Idle

NextDriver ==
    \/ Start
    \/ Stop
    \/ \E t \in TaskIds : FirstRun(t)
    \/ \E t \in TaskIds : SweepRaises(t)
    \/ \E t \in TaskIds : ProcessModel(t)
    \/ \E t \in TaskIds : Broadcast(t)
    \/ \E t \in TaskIds : BroadcastResume(t)
    \/ \E t \in TaskIds : EndSweep(t)
    \/ \E t \in TaskIds : Wake(t)

\* any interleaving of start(), stop() and the tasks' steps within one clock tick
SpecDriver == InitDriver /\ [][NextDriver]_vars

\* start() has been called once and its task has not run yet
InitSweep ==
    /\ IdleStore /\ IdleDrift /\ IdleTwin /\ IdleCorr /\ IdleEndpoint /\ IdleMetrics /\ IdlePsi /\ IdleBuckets /\ IdleRound /\ IdleLinks
    /\ running = FALSE
    /\ tasks = <<NewTask>>
    /\ task = 1
    /\ cpu = NoTask
    /\ now = 0
    /\ drift_checks = <<>>
    /\ notified = {}
    /\ stop_called = FALSE

NextSweep ==
    \/ Tick
    \/ ManualCheck({"ok"})
    \/ \E t \in TaskIds : FirstRun(t)
    \/ \E t \in TaskIds : SweepRaises(t)
    \/ \E t \in TaskIds : ProcessModel(t)
    \/ \E t \in TaskIds : Broadcast(t)
    \/ \E t \in TaskIds : BroadcastResume(t)
    \/ \E t \in TaskIds : EndSweep(t)
    \/ \E t \in TaskIds : Wake(t)

\* the sweeps of the started loop while time passes and manual checks arrive
SpecSweep == InitSweep /\ [][NextSweep]_vars

NextLoop ==
    \/ Stop
    \/ \E t \in TaskIds : FirstRun(t)
    \/ \E t \in TaskIds : SweepRaises(t)
    \/ \E t \in TaskIds : ProcessModel(t)
    \/ \E t \in TaskIds : Broadcast(t)
    \/ \E t \in TaskIds : BroadcastResume(t)
    \/ \E t \in TaskIds : EndSweep(t)
    \/ \E t \in TaskIds : Wake(t)

\* the event loop runs a task that is ready, and every sleep ends
TaskStep(t) ==
    \/ FirstRun(t) \/ SweepRaises(t) \/ ProcessModel(t) \/ Broadcast(t)
    \/ BroadcastResume(t) \/ EndSweep(t) \/ Wake(t)

\* the started loop until and after stop(), the event loop being fair to its task
SpecLoop ==
    InitSweep /\ [][NextLoop]_vars /\ \A t \in TaskIds : WF_vars(TaskStep(t))

NextChecks ==
    \/ ManualCheck(ManualOutcomes)
    \/ \E t \in TaskIds : FirstRun(t)
    \/ \E t \in TaskIds : SweepRaises(t)
    \/ \E t \in TaskIds : ProcessModel(t)
    \/ \E t \in TaskIds : Broadcast(t)
    \/ \E t \in TaskIds : BroadcastResume(t)
    \/ \E t \in TaskIds : EndSweep(t)
    \/ \E t \in TaskIds : Wake(t)

\* the drift-check runs of the started loop and of the manual endpoints, whatever
\* their outcome, within one clock tick
SpecChecks == InitSweep /\ [][NextChecks]_vars

-----------------------------------------------------------------------------
(* calculate_metrics  (app/services/metrics.py)                              *)
(*                                                                           *)
(* Inputs are sequences of small integers; a float result is the exact       *)
(* rational [num, den] (den > 0), a square root is kept as the rational      *)
(* under the root.                                                           *)

\* the sequences handed to calculate_metrics have at most MaxLen values
MaxLen == 3
MetricValues == 0..2
MetricInputs == UNION {[1..k -> MetricValues] : k \in 0..MaxLen}

Abs(x) == IF x < 0 THEN 0 - x ELSE x

\* sklearn mean_squared_error(actuals, predictions)
mean_squared_error(a, p) ==
    [num |-> SumOf(Products(Errors(a, p), Errors(a, p))), den |-> Len(a)]

\* sklearn mean_absolute_error(actuals, predictions)
mean_absolute_error_Signed(a, p) ==
    [num |-> SumOf(Errors(a, p)), den |-> Len(a)]
mean_absolute_error(a, p) ==
    [num |-> SumOf([i \in 1..Len(a) |-> Abs(Errors(a, p)[i])]), den |-> Len(a)]

\* np.sqrt(x), kept as the value under the root
Sqrt(x) == [sq |-> x]

\* np.std(x) < 1e-12: on integers the deviation is 0 or at least 1/n
StdIsZero(x) == Variance(x) = 0

\* np.clip(corr, -1.0, 1.0) ** 2 of corr = np.corrcoef(a, p)[0, 1]
CorrCoefSquared(a, p) ==
    LET num == Covariance(a, p) * Covariance(a, p)
        den == Variance(a) * Variance(p)
    IN  IF num > den THEN [num |-> 1, den |-> 1] ELSE [num |-> num, den |-> den]

\* np.isclose(r, 1.0, atol=1e-9): |r - 1| <= 1e-9 + 1e-5 * 1, that is
\* (den - num) * 10^9 <= 10001 * den, divided by 10^4 on both sides
IsCloseToOne(r) == Abs(r.den - r.num) * 100000 <= r.den + (r.den \div 10000)

\* the r_squared of calculate_metrics (lines 33-39)
RSquared_Standard(a, p) ==
    IF Variance(a) = 0 THEN [num |-> 1, den |-> 1]
    ELSE [num |-> Variance(a) - Len(a) * mean_squared_error(a, p).num,
          den |-> Variance(a)]
RSquared(a, p) ==
    IF StdIsZero(a) \/ StdIsZero(p) THEN [num |-> 1, den |-> 1]
    ELSE IF IsCloseToOne(CorrCoefSquared(a, p)) THEN [num |-> 1, den |-> 1]
    ELSE CorrCoefSquared(a, p)

\* the two tests on the arguments (lines 21-25): the message of the ValueError
\* raised, or "valid"
InvalidInput_LengthOnly(predictions_arg, actuals_arg) ==
    IF Len(predictions_arg) # Len(actuals_arg)
    THEN "ValueError: Predictions and actuals must have the same length"
    ELSE "valid"
InvalidInput(predictions_arg, actuals_arg) ==
    IF Len(predictions_arg) # Len(actuals_arg)
    THEN "ValueError: Predictions and actuals must have the same length"
    ELSE IF Len(predictions_arg) = 0
    THEN "ValueError: Cannot calculate metrics on empty data"
    ELSE "valid"

\* calculate_metrics(predictions, actuals)
calculate_metrics(predictions_arg, actuals_arg) ==
    IF InvalidInput(predictions_arg, actuals_arg) # "valid"
    THEN [status |-> InvalidInput(predictions_arg, actuals_arg)]
    ELSE [status |-> "ok",
          ret |-> [rmse |-> Sqrt(mean_squared_error(actuals_arg, predictions_arg)),
                   mae |-> mean_absolute_error(actuals_arg, predictions_arg),
                   r_squared |-> RSquared(actuals_arg, predictions_arg),
                   n_samples |-> Len(predictions_arg)]]

CalculateMetrics ==
    /\ metrics.status = "not called"
    /\ metrics' = calculate_metrics(m_predictions, m_actuals)
    /\ UNCHANGED <<m_predictions, m_actuals, exceptMetrics>>

InitMetrics ==
    /\ IdleStore /\ IdleDrift /\ IdleTwin /\ IdleCorr /\ IdleEndpoint /\ IdleDriver /\ IdlePsi /\ IdleBuckets /\ IdleRound /\ IdleLinks
    /\ m_predictions \in MetricInputs
    /\ m_actuals \in MetricInputs
    /\ metrics = [status |-> "not called"]

NextMetrics == CalculateMetrics

\* calculate_metrics applied to every pair of sequences of at most MaxLen values
SpecMetrics == InitMetrics /\ [][NextMetrics]_vars

-----------------------------------------------------------------------------
(* calculate_metrics_by_time_buckets  (app/services/metrics.py)              *)
(*                                                                           *)
(* A timestamp is a number of hours since Monday 2024-01-01 00:00; the       *)
(* calendar covers January, February (29 days) and March 2024. The returned  *)
(* dict of parallel lists is kept as one list of tuples; isoformat() names a *)
(* timestamp one-to-one, the label is kept as the timestamp it names.        *)

\* the table holds at most MaxRecords records of the model's datasets
MaxRecords == 2

HoursPerDay == 24
DaysPerWeek == 7

\* first day of the k-th month of the calendar, and of the month after the last
MonthStarts == <<0, 31, 60, 91>>

\* timestamps and values of the stored records
RecordTimes == {d * HoursPerDay + h : d \in {0, 6, 7, 31}, h \in {0, 10}}
RecordRows == [timestamp : RecordTimes, prediction_value : {1, 2}, observed_value : {1}]
RecordTables == UNION {[1..k -> RecordRows] : k \in 0..MaxRecords}
BucketSizes == {"day", "week", "month", "year"}

\* .order_by(Record.timestamp) (line 81)
RECURSIVE OrderByTimestamp(_)
OrderByTimestamp(recs) ==
    IF recs = <<>> THEN <<>>
    ELSE LET front == OrderByTimestamp(SubSeq(recs, 1, Len(recs) - 1))
             x     == recs[Len(recs)]
             k     == Cardinality({i \in 1..Len(front) : front[i].timestamp <= x.timestamp})
         IN  SubSeq(front, 1, k) \o <<x>> \o SubSeq(front, k + 1, Len(front))

MonthOf(day) == CHOOSE k \in 1..(Len(MonthStarts) - 1) :
                    MonthStarts[k] <= day /\ day < MonthStarts[k + 1]

\* the bin of pd.Grouper(freq=...) a timestamp falls in: "D" bins are the days,
\* "W" bins the weeks Monday to Sunday, "M" bins the months
Bin(ts, size) ==
    IF size = "day" THEN ts \div HoursPerDay
    ELSE IF size = "week" THEN (ts \div HoursPerDay) \div DaysPerWeek
    ELSE MonthOf(ts \div HoursPerDay)

\* the key pandas gives a bin: "D" bins are labelled by their left edge, "W" and
\* "M" bins by their right edge, which is the midnight that begins the last day of
\* the week (Sunday) or of the month
BinLabel(bin, size) ==
    IF size = "day" THEN bin * HoursPerDay
    ELSE IF size = "week" THEN (bin * DaysPerWeek + DaysPerWeek - 1) * HoursPerDay
    ELSE (MonthStarts[bin + 1] - 1) * HoursPerDay

\* the rows of one group
Group(recs, bin, size) == SelectSeq(recs, LAMBDA r : Bin(r.timestamp, size) = bin)

\* the loop of lines 118-131 over the bins lo..hi: empty groups are skipped
RECURSIVE BucketLoop(_, _, _, _)
BucketLoop(recs, lo, hi, size) ==
    IF lo > hi THEN <<>>
    ELSE LET group == Group(recs, lo, size)
             m == calculate_metrics(
                      [i \in 1..Len(group) |-> group[i].prediction_value],
                      [i \in 1..Len(group) |-> group[i].observed_value]).ret
         IN  (IF Len(group) = 0 THEN <<>>
              ELSE <<[time_bucket |-> BinLabel(lo, size), rmse |-> m.rmse,
                      mae |-> m.mae, r_squared |-> m.r_squared,
                      n_samples |-> m.n_samples]>>)
             \o BucketLoop(recs, lo + 1, hi, size)

\* calculate_metrics_by_time_buckets(db, model_id, bucket_size) on the records of
\* the model's datasets
calculate_metrics_by_time_buckets(table, size) ==
    LET recs == OrderByTimestamp(table)
    IN  IF recs = <<>> THEN [status |-> "ok", ret |-> <<>>]
        ELSE IF size \notin {"day", "week", "month"}
        THEN [status |-> "ValueError: Invalid bucket_size"]
        ELSE [status |-> "ok",
              ret |-> BucketLoop(recs, Bin(recs[1].timestamp, size),
                                 Bin(recs[Len(recs)].timestamp, size), size)]

exceptBuckets == <<storeVars, driftVars, twinVars, corrVars, endpointVars, driverVars, metricVars, psiVars, roundVars, linkVars>>

CalculateMetricsByTimeBuckets ==
    /\ buckets.status = "not called"
    /\ buckets' = calculate_metrics_by_time_buckets(records, bucket_size)
    /\ UNCHANGED <<records, bucket_size, exceptBuckets>>

InitBuckets ==
    /\ records \in RecordTables
    /\ bucket_size \in BucketSizes
    /\ buckets = [status |-> "not called"]
    /\ IdleStore /\ IdleDrift /\ IdleTwin /\ IdleCorr /\ IdleEndpoint /\ IdleDriver /\ IdleMetrics /\ IdlePsi /\ IdleRound /\ IdleLinks

NextBuckets == CalculateMetricsByTimeBuckets

\* calculate_metrics_by_time_buckets applied to every table of at most MaxRecords
\* records and every bucket size
SpecBuckets == InitBuckets /\ [][NextBuckets]_vars

-----------------------------------------------------------------------------
(* Vocabulary of the reconciler claims, stated on the stored tables directly *)

HasFrame == frame.kind = "DataFrame"
FrameRows == IF HasFrame THEN Range(frame.rows) ELSE {}

\* the predictions stored for the queried model, and all stored outcomes
ModelPredictions == {p \in Range(predictions) : p.model_id = frame_model}
Outcomes == Range(results)

\* a missing or blank assay_version is the empty tag
Tag(ver) == IF ver = None THEN "" ELSE ver
SameTag(p, r) == p.molecule_id = r.molecule_id /\ Tag(p.assay_version) = Tag(r.assay_version)

\* the stored records a frame row was built from (y values are pairwise distinct)
PredOf(row) == CHOOSE p \in Range(predictions) : p.y_pred = row.y_pred
OutcomeOf(row) == CHOOSE r \in Range(results) : r.y_true = row.y_true

\* C4: the frame holds at most one row per molecule_id
C4_OneRowPerMolecule ==
    HasFrame =>
        \A i, j \in 1..Len(frame.rows) :
            frame.rows[i].molecule_id = frame.rows[j].molecule_id => i = j

\* C5: the row built for a prediction (m, v) that has an outcome (m, v) carries the
\* measured value of an outcome (m, v), wherever the other outcomes of m are stored
C5_ExactOutcomePreferred ==
    \A row \in FrameRows : \A p \in ModelPredictions :
        (row.y_pred = p.y_pred /\ \E r \in Outcomes : SameTag(p, r))
            => \E r \in Outcomes : SameTag(p, r) /\ row.y_true = r.y_true

\* C5 witness: a returned row of a prediction whose same-version outcome is
\* followed in the store by an outcome of the molecule under another version
C5_Witness ==
    \E row \in FrameRows : \E p \in ModelPredictions : \E r1, r2 \in Outcomes :
        /\ row.y_pred = p.y_pred
        /\ SameTag(p, r1) /\ row.y_true = r1.y_true
        /\ r2.molecule_id = p.molecule_id /\ ~SameTag(p, r2)
        /\ r2.id > r1.id

\* C6: a molecule gets a fallback row exactly when the model predicts it, an outcome
\* exists for it and no prediction/outcome pair of it agrees on the assay tag; it
\* then gets exactly one, and never next to an exact-rule row
C6_NeedsFallback(m) ==
    /\ \E p \in ModelPredictions : p.molecule_id = m
    /\ \E r \in Outcomes : r.molecule_id = m
    /\ ~\E p \in ModelPredictions, r \in Outcomes : p.molecule_id = m /\ SameTag(p, r)
C6_FallbackIffUnmatched ==
    frame # NotCalled =>
        \A m \in Molecules :
            LET fb == {i \in 1..(IF HasFrame THEN Len(frame.rows) ELSE 0) :
                          frame.rows[i].molecule_id = m /\ frame.rows[i].rule = "fallback"}
                ex == {row \in FrameRows : row.molecule_id = m /\ row.rule = "exact"}
            IN  /\ (fb # {}) <=> C6_NeedsFallback(m)
                /\ Cardinality(fb) <= 1
                /\ ex # {} => fb = {}

\* C6 witness: a fallback row for one molecule although the tags of its prediction
\* and outcome differ, while the stored tags None and "" of another pair agree
C6_Witness ==
    /\ \E row \in FrameRows : row.rule = "fallback"
    /\ \E row \in FrameRows :
          /\ row.rule = "exact"
          /\ PredOf(row).assay_version # OutcomeOf(row).assay_version

\* C7: every row pairs a prediction of the queried model with an outcome of the same
\* molecule; predictions without outcome or of other models give no row
C7_RowsPairModelRecords ==
    /\ \A row \in FrameRows :
          /\ \E p \in ModelPredictions :
                p.molecule_id = row.molecule_id /\ p.y_pred = row.y_pred
          /\ \E r \in Outcomes :
                r.molecule_id = row.molecule_id /\ r.y_true = row.y_true
    /\ \A p \in Range(predictions) :
          (p.model_id # frame_model \/ ~\E r \in Outcomes : r.molecule_id = p.molecule_id)
             => ~\E row \in FrameRows : row.y_pred = p.y_pred

\* C7 witness: a frame was returned while another model holds a prediction for a
\* molecule that has an outcome
C7_Witness ==
    /\ HasFrame
    /\ \E p \in Range(predictions) : \E r \in Outcomes :
          p.model_id # frame_model /\ r.molecule_id = p.molecule_id

\* C9: "no data" is returned exactly when no prediction of the model shares a
\* molecule with a stored outcome, and a returned frame is never empty
C9_SharesMolecule ==
    \E p \in ModelPredictions : \E r \in Outcomes : p.molecule_id = r.molecule_id
C9_NoDataIffNoSharedMolecule ==
    frame # NotCalled =>
        /\ (frame = NoFrame) <=> ~C9_SharesMolecule
        /\ HasFrame => Len(frame.rows) >= 1

\* C9 witness: a frame is returned for a molecule matched by the fallback only
C9_Witness ==
    /\ HasFrame
    /\ \A row \in FrameRows : row.rule = "fallback"

\* a context value is present when it is neither missing nor blank
Has(x) == x \notin {None, ""}
Prefer(outcome_value, pred_value) == IF Has(outcome_value) THEN outcome_value ELSE pred_value

\* the timestamp column is absent when it is None in the store, NaT in the frame
C8_TimestampResolved(row) ==
    LET p == PredOf(row)
        r == OutcomeOf(row)
    IN  IF r.run_timestamp # NoneTs THEN row.run_timestamp = r.run_timestamp
        ELSE IF p.run_timestamp # NoneTs THEN row.run_timestamp = p.run_timestamp
        ELSE row.run_timestamp = NaT

\* C8 as stated: every context field and the timestamp of a row is the outcome's
\* value when it has one, else the prediction's
C8_ContextPrefersOutcome ==
    \A row \in FrameRows :
        LET p == PredOf(row)
            r == OutcomeOf(row)
        IN  /\ row.reagent_batch = Prefer(r.reagent_batch, p.reagent_batch)
            /\ row.instrument_id = Prefer(r.instrument_id, p.instrument_id)
            /\ row.assay_version = Prefer(r.assay_version, p.assay_version)
            /\ C8_TimestampResolved(row)

\* C8 amended: as above, except that assay_version is the literal "v1" when neither
\* the outcome nor the prediction carries a non-blank assay_version
C8_ContextPrefersOutcomeOrV1 ==
    \A row \in FrameRows :
        LET p == PredOf(row)
            r == OutcomeOf(row)
        IN  /\ row.reagent_batch = Prefer(r.reagent_batch, p.reagent_batch)
            /\ row.instrument_id = Prefer(r.instrument_id, p.instrument_id)
            /\ row.assay_version =
                  IF Has(r.assay_version) \/ Has(p.assay_version)
                  THEN Prefer(r.assay_version, p.assay_version)
                  ELSE "v1"
            /\ C8_TimestampResolved(row)

\* C8 witness: a row that takes its batch from the prediction because the outcome
\* has a blank one, its instrument and timestamp from the outcome, and whose
\* assay_version comes from the outcome under the fallback rule
C8_Witness ==
    \E row \in FrameRows :
        /\ OutcomeOf(row).reagent_batch = "" /\ row.reagent_batch = "RB_P"
        /\ PredOf(row).instrument_id = "LCMS_P" /\ row.instrument_id = "LCMS_R"
        /\ PredOf(row).run_timestamp = 3 /\ row.run_timestamp = 5
        /\ row.rule = "fallback" /\ row.assay_version = "v3"

-----------------------------------------------------------------------------
(* Vocabulary of the drift-detector claims *)

DriftDone == drift.pc = "done"
DfRows == IF df = NoFrame THEN <<>> ELSE df.rows
Reports(field) == field \in DOMAIN drift.ret
BothWindowsFilled == Len(drift.baseline) >= 10 /\ Len(drift.recent) >= 10

\* C1: with at least 10 rows in both windows the verdict is YES exactly when
\* ks_p < KS threshold or psi > PSI threshold
C1_VerdictIsEitherSignal ==
    (DriftDone /\ BothWindowsFilled) =>
        /\ Reports("ks_p") /\ Reports("psi")
        /\ (drift.ret.drift_detected = "YES")
              <=> (drift.ret.ks_p < KS_THRESHOLD \/ drift.ret.psi > PSI_THRESHOLD)
        /\ drift.ret.drift_detected \in {"YES", "NO"}

\* C1 witness: the KS p-value alone signals drift, PSI sits exactly on its threshold
C1_Witness ==
    /\ DriftDone /\ BothWindowsFilled
    /\ drift.ret.enough_data
    /\ drift.ret.ks_p < KS_THRESHOLD /\ drift.ret.psi = PSI_THRESHOLD
    /\ drift.ret.drift_detected = "YES"

\* the rows on either side of the cutoff of cutoff_days before the latest timestamp
C2_Timed == {i \in 1..Len(DfRows) : DfRows[i].run_timestamp # NaT}
C2_Latest == CHOOSE t \in {DfRows[i].run_timestamp : i \in C2_Timed} :
                \A i \in C2_Timed : DfRows[i].run_timestamp <= t
C2_CutoffRecent == {DfRows[i].index : i \in {j \in C2_Timed :
                        DfRows[j].run_timestamp >= C2_Latest - cutoff_days}}
C2_CutoffBaseline == {DfRows[i].index : i \in {j \in C2_Timed :
                        DfRows[j].run_timestamp < C2_Latest - cutoff_days}}
IndexSet(rows) == {rows[i].index : i \in 1..Len(rows)}

\* C2 as stated: when the cutoff leaves both sides non-empty, the windows are the
\* two sides of the cutoff
C2_CutoffSplitIsPrimary ==
    (DriftDone /\ C2_Timed # {} /\ C2_CutoffRecent # {} /\ C2_CutoffBaseline # {}) =>
        /\ IndexSet(drift.recent) = C2_CutoffRecent
        /\ IndexSet(drift.baseline) = C2_CutoffBaseline

\* rows in the order of their timestamps, rows without timestamp last
C2_InTimeOrder(rows) ==
    \A i, j \in 1..Len(rows) :
        i < j => \/ rows[j].run_timestamp = NaT
                 \/ /\ rows[i].run_timestamp # NaT
                    /\ rows[i].run_timestamp <= rows[j].run_timestamp

\* C2 amended: for a frame with at least one timestamp the windows are the first
\* len // 2 rows and the remaining rows of the time-ordered frame (whatever the
\* cutoff); the cutoff split is used only for a one-row frame, whose row is recent
C2_IndexSplitIsPrimary ==
    (DriftDone /\ C2_Timed # {}) =>
        LET all == drift.baseline \o drift.recent
        IN  /\ Len(all) = Len(DfRows)
            /\ Range(all) = Range(DfRows)
            /\ C2_InTimeOrder(all)
            /\ Len(drift.baseline) = Len(DfRows) \div 2
            /\ Len(DfRows) = 1 => IndexSet(drift.recent) = C2_CutoffRecent

\* C2 witness: the cutoff separates 10 old rows from 1 new row, and the windows are
\* the 5 first and the 6 last rows
C2_Witness ==
    /\ DriftDone
    /\ C2_Timed # {}
    /\ Cardinality(C2_CutoffBaseline) = 10 /\ Cardinality(C2_CutoffRecent) = 1
    /\ Len(drift.baseline) = 5 /\ Len(drift.recent) = 6

\* C28: for a non-empty frame the two windows share no row, hold every row of
\* the frame once, and the baseline rows followed by the recent rows are the frame
\* in the order of its timestamps
C28_WindowsPartitionInOrder ==
    (DriftDone /\ Len(DfRows) > 0) =>
        /\ IndexSet(drift.baseline) \cap IndexSet(drift.recent) = {}
        /\ IndexSet(drift.baseline) \cup IndexSet(drift.recent) = IndexSet(DfRows)
        /\ Len(drift.baseline) + Len(drift.recent) = Len(DfRows)
        /\ C2_InTimeOrder(drift.baseline \o drift.recent)

\* C3: with fewer than 10 rows in a window (or in the frame, or no frame) the call
\* returns enough_data = false, no YES verdict and no statistics
C3_InsufficientDataNoVerdict ==
    (DriftDone /\ (Len(DfRows) < 10 \/ Len(drift.baseline) < 10 \/ Len(drift.recent) < 10)) =>
        /\ drift.ret.enough_data = FALSE
        /\ drift.ret.drift_detected # "YES"
        /\ ~Reports("ks_stat") /\ ~Reports("ks_p") /\ ~Reports("psi")

\* C3 witness: a frame of 19 rows, 9 in the baseline and 10 in the recent window
C3_Witness ==
    /\ DriftDone
    /\ Len(DfRows) = 19 /\ Len(drift.baseline) = 9 /\ Len(drift.recent) = 10
    /\ drift.ret.enough_data = FALSE

\* C21: two frames that agree, row by row, on run_timestamp and y_true get the same
\* result from detect_drift (enough_data, verdict, KS, PSI, window sizes, means),
\* whatever their predicted values and context fields are
C21_OnlyTimestampsAndMeasured ==
    (drift.pc = "done" /\ drift_twin.pc = "done") => drift_twin.ret = drift.ret

\* C21 witness: both calls report drift on 10 old and 10 new rows that the frames
\* list newest first, and the frames differ in the other columns of the new rows
C21_Witness ==
    /\ drift.pc = "done" /\ drift_twin.pc = "done"
    /\ drift_twin.ret.enough_data /\ drift_twin.ret.drift_detected = "YES"
    /\ df.rows[1].run_timestamp = 31 /\ df.rows[20].run_timestamp = 0
    /\ df.rows[1].y_pred = 3 /\ df_twin.rows[1].y_pred = 4
    /\ df.rows[1].reagent_batch = None /\ df_twin.rows[1].reagent_batch = "RB_01"
    /\ df.rows[20].y_pred = df_twin.rows[20].y_pred

\* C22: compute_psi returns without raising, its value is never negative, and it is
\* exactly 0 when a sample is empty or when all values of both samples are equal
C22_PsiNonNegative ==
    psi_out.status # "not called" =>
        /\ psi_out.status = "ok"
        /\ psi_out.ret >= 0
        /\ (psi_expected = <<>> \/ psi_actual = <<>>
               \/ \A v, w \in Range(psi_expected) \cup Range(psi_actual) : v = w)
              => psi_out.ret = 0

\* C22 witness: three equal values against three of the same value give 0
C22_Witness ==
    /\ psi_expected = <<1, 1, 1>> /\ psi_actual = <<1, 1, 1>>
    /\ psi_out.status = "ok" /\ psi_out.ret = 0

-----------------------------------------------------------------------------
(* InMemoryStore.link_records and InMemoryStore.latest                       *)
(* (src/recalibra/storage/repository.py)                                     *)

\* the store holds at most MaxLinks linked records in a run, a call of link_records
\* brings at most MaxLinkBatch of them, and latest is asked for at most MaxLimit
MaxLinks == 3
MaxLinkBatch == 2
MaxLimit == 4

\* LinkedRecord (models/domain.py): a prediction, its outcome and their difference
LinkedRecords ==
    [kind : {"LinkedRecord"}, prediction : {"p1", "p2"}, outcome : {"o1"}, delta : {0, 1}]
LinkBatches == UNION {[1..k -> LinkedRecords] : k \in 0..MaxLinkBatch}

\* the limit argument of latest, not negative
Limits == 0..MaxLimit

\* LinkedRecordSchema.from_domain(record) and LinkedRecordSchema.to_domain()
\* (storage/schemas.py, lines 103-116): field by field
from_domain(record) ==
    [kind |-> "LinkedRecordSchema", prediction |-> record.prediction,
     outcome |-> record.outcome, delta |-> record.delta]
to_domain(schema) ==
    [kind |-> "LinkedRecord", prediction |-> schema.prediction,
     outcome |-> schema.outcome, delta |-> schema.delta]

\* Python list[start:] : a negative start counts from the end, and the start is
\* clamped to the list; -0 is 0, the start of the list
SliceFrom(list, start) ==
    LET from == IF start < 0 THEN IF start + Len(list) < 0 THEN 0 ELSE start + Len(list)
                ELSE IF start > Len(list) THEN Len(list) ELSE start
    IN  SubSeq(list, from + 1, Len(list))

\* InMemoryStore.latest(limit): [schema.to_domain() for schema in self.links[-limit:]]
latest(list, limit) ==
    LET tail == SliceFrom(list, 0 - limit)
    IN  [i \in 1..Len(tail) |-> to_domain(tail[i])]

\* await store.link_records(records)
LinkRecords ==
    /\ \E batch \in LinkBatches :
          /\ Len(links) + Len(batch) <= MaxLinks
          /\ links' = links \o [i \in 1..Len(batch) |-> from_domain(batch[i])]
          /\ linked' = linked \o batch
    /\ latest_out' = [status |-> "not called"]
    /\ UNCHANGED exceptLinks

\* await store.latest(limit)
Latest ==
    /\ \E limit \in Limits :
          latest_out' = [status |-> "ok", limit |-> limit, ret |-> latest(links, limit)]
    /\ UNCHANGED <<links, linked, exceptLinks>>

InitLinks == Idle

NextLinks == LinkRecords \/ Latest

\* any sequence of link_records calls, and calls of latest between them
SpecLinks == InitLinks /\ [][NextLinks]_vars

-----------------------------------------------------------------------------
(* Claims on the correction trainer / applier *)

C11_Path(m) == "./corrections/" \o m \o "_correction.joblib"

\* C11: the artifact stored for a model id is the one fitted by its most recent
\* successful training, and a model id never trained successfully has no artifact;
\* so a training replaces the model's own artifact and touches no other one
C11_LastWriterWins ==
    \A m \in ModelIds :
        IF m \in DOMAIN latest_fit
        THEN /\ C11_Path(m) \in DOMAIN files
             /\ files[C11_Path(m)] = latest_fit[m]
        ELSE C11_Path(m) \notin DOMAIN files

\* C11 witness: m1 has just been retrained on a frame with other batches than the
\* one whose artifact m2 keeps
C11_Witness ==
    /\ corr.op = "train" /\ corr.status = "ok" /\ corr.model_id = "m1"
    /\ DOMAIN latest_fit = {"m1", "m2"}
    /\ files[C11_Path("m1")].batch_categories = {"RB_01"}
    /\ files[C11_Path("m2")].batch_categories = {"unknown"}

\* C13: a training given fewer than 10 rows with both a predicted and a measured
\* value fails with the insufficient-data error and leaves the directory as it was
C13_InsufficientDataWritesNothing ==
    [][(corr'.op = "train" /\ corr'.given.complete < 10)
          => (corr'.status = "ValueError: Insufficient data" /\ files' = files)]_vars

\* C13 witness: a frame of 10 rows, none complete, was refused while an artifact of
\* the same model id is stored
C13_Witness ==
    /\ corr.op = "train" /\ corr.given.rows >= 10 /\ corr.given.complete < 10
    /\ corr.status = "ValueError: Insufficient data"
    /\ C11_Path(corr.model_id) \in DOMAIN files

\* the rows of a round trip whose training succeeded and whose correction was
\* applied, and the sums of squared errors before and after the correction
C24_Applied == corr.op = "apply" /\ corr.status = "ok" /\ Len(round_df) >= 10
C24_After == corr.ret[1].value.den
C24_SseBefore ==
    SumOf([i \in 1..Len(round_df) |->
              (round_df[i].y_true - round_df[i].y_pred)
                 * (round_df[i].y_true - round_df[i].y_pred)])
C24_SseAfterNum ==
    SumOf([i \in 1..Len(round_df) |->
              (round_df[i].y_true * C24_After - corr.ret[i].value.num)
                 * (round_df[i].y_true * C24_After - corr.ret[i].value.num)])
\* n times the sum of squared deviations of the measured values from their mean
C24_Tot ==
    Len(round_df) * SumOf([i \in 1..Len(round_df) |-> round_df[i].y_true * round_df[i].y_true])
       - SumOf([i \in 1..Len(round_df) |-> round_df[i].y_true])
            * SumOf([i \in 1..Len(round_df) |-> round_df[i].y_true])

\* C24 as stated: the RMSE of the corrected values on the training rows is at most
\* the RMSE of the uncorrected predictions
C24_RoundTripNeverWorse ==
    C24_Applied => C24_SseAfterNum <= C24_SseBefore * C24_After * C24_After

\* C24: the corrected values minimise squared error plus alpha times the squared
\* weights (alpha = 1), the uncorrected predictions being the weights (1, 0, ...)
\* with intercept 0: SSE_after + alpha * slope^2 <= SSE_before + alpha; and the RMSE
\* after the correction is at most that of predicting the mean measured value
C24_RoundTripWithinPenalty ==
    C24_Applied =>
        LET coef == files[C11_Path(corr.model_id)].coef
            n == Len(round_df)
        IN  /\ \A i \in 1..n : corr.ret[i].value.den = C24_After /\ C24_After > 0
            /\ C24_SseAfterNum + (coef.slope.num * n) * (coef.slope.num * n)
                  <= (C24_SseBefore + 1) * C24_After * C24_After
            /\ C24_SseAfterNum * n <= C24_Tot * C24_After * C24_After

\* C24 witness: the predictions equal the measured values (RMSE 0 before) and the
\* corrected values do not (RMSE above 0 after)
C24_Witness ==
    /\ C24_Applied
    /\ C24_SseBefore = 0
    /\ C24_SseAfterNum > 0

-----------------------------------------------------------------------------
(* Claims on train_correction_endpoint *)

C12_Entries(m) == {i \in DOMAIN correction_models : correction_models[i].model_id = m}

\* C12 as stated: the table holds at most one entry per model_id
C12_AtMostOneEntry ==
    \A m \in KnownModels : Cardinality(C12_Entries(m)) <= 1

\* C12: every successful training request adds one entry for its model_id after
\* the entries already there, which are kept; the new entry names the artifact file
\* of the model and the number of rows it was fitted on
C12_RetrainAddsEntry ==
    [][(response'.endpoint = "train_correction" /\ response'.status_code = 200)
          => /\ Len(correction_models') = Len(correction_models) + 1
             /\ SubSeq(correction_models', 1, Len(correction_models)) = correction_models
             /\ LET row == correction_models'[Len(correction_models')]
                IN  /\ row.model_id = response'.body.model_id
                    /\ row.file_path = C11_Path(row.model_id)
                    /\ row.training_samples = files'[row.file_path].fitted_rows]_vars

\* C12 witness: a model trained twice has two entries
C12_Witness ==
    /\ response.endpoint = "train_correction" /\ response.status_code = 200
    /\ Cardinality(C12_Entries("m1")) = 2

-----------------------------------------------------------------------------
(* Claims on calculate_metrics_by_time_buckets *)

\* the first hour of the calendar day, week (from Monday) or month of a timestamp
C23_Start(ts) ==
    LET day == ts \div 24
    IN  IF bucket_size = "day" THEN day * 24
        ELSE IF bucket_size = "week" THEN (day - (day % 7)) * 24
        ELSE IF day < 31 THEN 0 ELSE IF day < 60 THEN 31 * 24 ELSE 60 * 24

\* C23 as stated: for bucket size day, week or month the tuples are, in ascending
\* order, one per calendar bucket that holds a record, each labelled by the start
\* of its bucket and counting the records of that bucket
C23_OneTuplePerBucketLabelledByStart ==
    (buckets.status # "not called" /\ bucket_size \in {"day", "week", "month"}) =>
        /\ buckets.status = "ok"
        /\ LET out == buckets.ret
               starts == {C23_Start(records[i].timestamp) : i \in DOMAIN records}
           IN  /\ Len(out) = Cardinality(starts)
               /\ {out[i].time_bucket : i \in DOMAIN out} = starts
               /\ \A i, j \in DOMAIN out : i < j => out[i].time_bucket < out[j].time_bucket
               /\ \A i \in DOMAIN out :
                     out[i].n_samples =
                        Cardinality({k \in DOMAIN records :
                                       C23_Start(records[k].timestamp) = out[i].time_bucket})

-----------------------------------------------------------------------------
(* Claims on the periodic driver *)

C14_DriverRows == {j \in DOMAIN drift_checks : drift_checks[j].source = "driver"}

\* C14: every row the driver has committed was written for a model with at least 10
\* matched pairs and more than one hour after every row of that model, of any
\* source, committed before it (so two driver rows of a model are more than one
\* hour apart); every message to the observers reports a row the driver committed
C14_DriverChecksSpaced ==
    /\ \A j \in C14_DriverRows :
          /\ drift_checks[j].matched >= 10
          /\ \A i \in 1..(j - 1) :
                drift_checks[i].model_id = drift_checks[j].model_id
                   => drift_checks[j].check_timestamp - drift_checks[i].check_timestamp > HOUR
    /\ notified \subseteq C14_DriverRows

\* C14 witness: the driver has written a second row for a model and announced it,
\* and a manual check is in the table too
C14_Witness ==
    /\ \E i, j \in C14_DriverRows :
          /\ i < j /\ j \in notified
          /\ drift_checks[i].model_id = drift_checks[j].model_id
    /\ \E k \in DOMAIN drift_checks : drift_checks[k].source = "manual"

\* C15 as stated: a visit that ends in the exception handler leaves the table as
\* it was (the earlier rows are kept and no row of the failing model is added), and
\* the sweep goes on with the next model
C15_FailedVisitLeavesNothing ==
    [][\A t \in DOMAIN tasks :
          (tasks[t].pc = "sweep" /\ tasks'[t] # tasks[t] /\ tasks'[t].raised)
             => /\ tasks'[t].pc = "sweep"
                /\ tasks'[t].pos = tasks[t].pos + 1
                /\ drift_checks' = drift_checks]_vars

\* a periodic loop that has begun to run and has neither ended nor been cancelled
C16_Live(t) ==
    /\ tasks[t].pc \in {"sweep", "broadcast", "broadcast wait", "sleeping"}
    /\ ~tasks[t].cancel

\* C16 as stated: at most one periodic loop is active at a time
C16_AtMostOneLoop ==
    Cardinality({t \in DOMAIN tasks : C16_Live(t)}) <= 1

\* C17 as stated: no task begins a sweep while the last call on the manager is stop()
C17_NoSweepAfterStop ==
    [][\A t \in DOMAIN tasks :
          (tasks[t].pc \in {"created", "sleeping"} /\ tasks'[t].pc = "sweep")
             => ~stop_called]_vars

\* C25: a message to the observers reports a row of the visited model that is
\* already in the table when the broadcast ends; and a broadcast that ends in the
\* handler of its exception leaves the table as it is and lets the sweep go on
\* with the next model
C25_NotifyAfterCommit ==
    [][\A t \in DOMAIN tasks :
          (tasks[t].pc \in {"broadcast", "broadcast wait"}
             /\ tasks'[t].pc \notin {"broadcast", "broadcast wait", "cancelled"})
          => /\ tasks'[t].pc = "sweep" /\ tasks'[t].pos = tasks[t].pos + 1
             /\ drift_checks' = drift_checks
             /\ \A k \in notified' \ notified :
                   /\ k \in DOMAIN drift_checks
                   /\ drift_checks[k].source = "driver"
                   /\ drift_checks[k].model_id = DriverModels[tasks[t].pos]]_vars

\* C25 witness: the broadcast for the second model has just failed; its row is in
\* the table, unannounced, next to the announced row of the first model, and the
\* sweep is about to go on
C25_Witness ==
    \E t \in DOMAIN tasks : \E i, j \in C14_DriverRows :
        /\ tasks[t].pc = "sweep" /\ tasks[t].pos = 3 /\ tasks[t].ws_error
        /\ drift_checks[i].model_id = "M1" /\ drift_checks[j].model_id = "M2"
        /\ drift_checks[i].check_timestamp = now /\ drift_checks[j].check_timestamp = now
        /\ i \in notified /\ j \notin notified

\* C27: whenever a sweep of the started loop has ended, by its return or by an
\* exception that left it, and stop() has not been called, the loop begins another
\* sweep or stop() is called; the loop does not end otherwise
C27_SweepFollowsSweep ==
    \A t \in TaskIds :
        (t \in DOMAIN tasks /\ tasks[t].pc \in {"sleeping", "done", "cancelled"}
           /\ ~stop_called)
        ~> (stop_called \/ (t \in DOMAIN tasks /\ tasks[t].pc = "sweep"))

\* C27 witness: a sweep that followed a completed one has ended with an exception
\* that left it, and the loop sleeps, not stopped
C27_Witness ==
    \E t \in DOMAIN tasks :
        /\ tasks[t].pc = "sleeping" /\ tasks[t].pos = 1
        /\ ~stop_called /\ running /\ ~tasks[t].cancel
        /\ \E i \in DOMAIN drift_checks :
              drift_checks[i].source = "driver" /\ i \in notified

\* C26: no step takes a row out of the table or changes one; a manual request
\* answered with 200 and a driver visit that reaches its broadcast have each put
\* exactly one new row, of their model, after the rows that were there
C26_OneNewRowPerRun ==
    [][/\ Len(drift_checks') >= Len(drift_checks)
       /\ SubSeq(drift_checks', 1, Len(drift_checks)) = drift_checks
       /\ (response' # response /\ response'.status_code = 200)
             => /\ Len(drift_checks') = Len(drift_checks) + 1
                /\ drift_checks'[Len(drift_checks')].model_id = response'.model_id
                /\ drift_checks'[Len(drift_checks')].source = "manual"
       /\ \A t \in DOMAIN tasks :
             (tasks[t].pc = "sweep" /\ tasks'[t].pc = "broadcast")
             => /\ Len(drift_checks') = Len(drift_checks) + 1
                /\ drift_checks'[Len(drift_checks')].model_id = DriverModels[tasks[t].pos]
                /\ drift_checks'[Len(drift_checks')].source = "driver"]_vars

\* C26 witness: a manual run and a driver run of the same model have each left
\* their row, and the driver has completed its run of the other model too
C26_Witness ==
    /\ response.endpoint = "check_drift" /\ response.status_code = 200
    /\ \E i, j, k \in DOMAIN drift_checks :
          /\ i < j
          /\ drift_checks[i].source = "driver" /\ drift_checks[j].source = "manual"
          /\ drift_checks[i].model_id = drift_checks[j].model_id
          /\ drift_checks[k].source = "driver" /\ drift_checks[k].model_id # drift_checks[i].model_id
          /\ k \in notified

-----------------------------------------------------------------------------
(* Claims on calculate_metrics *)

MetricsCalled == metrics.status # "not called"
MetricsReturned == metrics.status = "ok"

\* C18: calculate_metrics raises a ValueError and returns nothing exactly when the
\* two sequences differ in length or are both empty
C18_InvalidInputRaises ==
    MetricsCalled =>
        IF Len(m_predictions) # Len(m_actuals)
              \/ (Len(m_predictions) = 0 /\ Len(m_actuals) = 0)
        THEN /\ metrics.status \in
                   {"ValueError: Predictions and actuals must have the same length",
                    "ValueError: Cannot calculate metrics on empty data"}
             /\ DOMAIN metrics = {"status"}
        ELSE MetricsReturned

\* C18 witness: the call with two empty sequences has raised
C18_Witness ==
    /\ m_predictions = <<>> /\ m_actuals = <<>>
    /\ metrics.status = "ValueError: Cannot calculate metrics on empty data"

\* n times the sum of squared deviations of x from its mean, and the same for the
\* products of the deviations of x and y
C19_Tot(x) ==
    Len(x) * SumOf([i \in 1..Len(x) |-> x[i] * x[i]]) - SumOf(x) * SumOf(x)
C19_Cross(x, y) ==
    Len(x) * SumOf([i \in 1..Len(x) |-> x[i] * y[i]]) - SumOf(x) * SumOf(y)

\* the sum of squared residuals
C19_Res == SumOf([i \in 1..Len(m_actuals) |->
                    (m_actuals[i] - m_predictions[i]) * (m_actuals[i] - m_predictions[i])])

\* C19 as stated: r_squared is 1 - SS_res/SS_tot, and 1.0 when the measured values
\* are all equal
C19_RSquaredIsDetermination ==
    MetricsReturned =>
        LET r == metrics.ret.r_squared
        IN  IF C19_Tot(m_actuals) = 0
            THEN r.num = r.den
            ELSE r.num * C19_Tot(m_actuals)
                    = (C19_Tot(m_actuals) - Len(m_actuals) * C19_Res) * r.den

\* C19: r_squared is the squared correlation coefficient of the measured and the
\* predicted values, a value from 0 to 1, and 1.0 when the measured or the predicted
\* values are all equal
C19_RSquaredIsSquaredCorrelation ==
    MetricsReturned =>
        LET r == metrics.ret.r_squared
        IN  /\ r.den > 0 /\ 0 <= r.num /\ r.num <= r.den
            /\ IF C19_Tot(m_actuals) = 0 \/ C19_Tot(m_predictions) = 0
               THEN r.num = r.den
               ELSE r.num * (C19_Tot(m_actuals) * C19_Tot(m_predictions))
                       = C19_Cross(m_actuals, m_predictions)
                            * C19_Cross(m_actuals, m_predictions) * r.den

\* C19 witness: r_squared is 1/4 where 1 - SS_res/SS_tot is 0
C19_Witness ==
    /\ m_predictions = <<0, 1, 2>> /\ m_actuals = <<0, 2, 1>>
    /\ MetricsReturned
    /\ metrics.ret.r_squared.num * 4 = metrics.ret.r_squared.den

\* C20: when every measured value is the predicted one plus one constant c, rmse
\* and mae are |c|, r_squared is 1.0 and n_samples is the length of the input
C20_ConstantOffset ==
    MetricsReturned =>
        \A c \in (0 - 2)..2 :
            (\A i \in 1..Len(m_predictions) : m_actuals[i] = m_predictions[i] + c)
               => /\ metrics.ret.rmse.sq.num = c * c * metrics.ret.rmse.sq.den
                  /\ metrics.ret.mae.num = (IF c < 0 THEN 0 - c ELSE c) * metrics.ret.mae.den
                  /\ metrics.ret.r_squared.num = metrics.ret.r_squared.den
                  /\ metrics.ret.n_samples = Len(m_predictions)

\* C20 witness: three predictions, each one above its measured value
C20_Witness ==
    /\ m_predictions = <<1, 2, 2>> /\ m_actuals = <<0, 1, 1>>
    /\ MetricsReturned
    /\ metrics.ret.mae.num = 3 /\ metrics.ret.n_samples = 3


\* C29: whenever a correction artifact is stored for a model, the table has a
\* record of that model, and the newest one names the artifact's file and the
\* number of rows the stored artifact was fitted on
C29_LastRecord(m) == correction_models[CHOOSE i \in C12_Entries(m) :
                                          \A j \in C12_Entries(m) : j <= i]
C29_LatestRecordDescribesArtifact ==
    \A m \in KnownModels :
        Exists(files, CorrectionPath(m)) =>
            /\ C12_Entries(m) # {}
            /\ C29_LastRecord(m).file_path = CorrectionPath(m)
            /\ C29_LastRecord(m).training_samples = files[CorrectionPath(m)].fitted_rows

\* C30: a call latest(limit) with limit >= 0 returns at most limit records: the
\* last min(limit, number linked) records given to link_records, in the order
\* they were linked
C30_Count == IF latest_out.limit < Len(linked) THEN latest_out.limit ELSE Len(linked)
C30_LatestReturnsNewestAtMostLimit ==
    latest_out.status = "ok" =>
        /\ Len(latest_out.ret) <= latest_out.limit
        /\ latest_out.ret = SubSeq(linked, Len(linked) - C30_Count + 1, Len(linked))

=============================================================================
